---------------------------- MODULE Spec2Model ----------------------------
(***************************************************************************)
(* A model of stile/data_handler.py: ConfigDataHandler.parseFiles and the  *)
(* helpers it calls (_parseFileHelper, _recurseDict, _expandWildcard,      *)
(* _group, _formatFileList, _fixGroupings, _merge, _getGroups,             *)
(* _removeGroup).  The code is Python 2 (dict.keys() is a list, a str has  *)
(* no __iter__, list-comprehension variables leak into the function).      *)
(*                                                                         *)
(* Python values are tagged records: Str, Bool, List, Dict.  A Python dict *)
(* is a TLA+ function from key strings to values.  A call that can raise   *)
(* returns [err, v]: err is "" when the call returned v, and otherwise the *)
(* exception that left the call.                                           *)
(***************************************************************************)
EXTENDS Integers, Sequences, FiniteSets, TLC

VARIABLES
    config,     \* stile_args: the configuration mapping given to parseFiles
    dictOrder,  \* the iteration order of dicts in this run: "asc" or "desc"
    pc,         \* "parse" (in the loop over file keys), "done", "error"
    idx,        \* number of file keys of the loop already processed
    n,          \* the group counter n of parseFiles
    grouped,    \* per processed source, the list _group returned
    file_list,  \* parseFiles' file_list: one formatted dict per source
    files,      \* self.files, bound only when parseFiles returned
    groups,     \* self.groups, bound only when parseFiles returned
    err,        \* the exception that left parseFiles, "" when none
    result,     \* the last call of a list/query method and what it returned
    item_list,  \* the argument of _expandBins
    expanded,   \* what the successive calls of _expandBins returned
    clobber,        \* DataHandler.clobber
    multi_file,     \* DataHandler.multi_file
    written_files,  \* DataHandler.written_files
    disk,           \* the files that exist in output_path
    input           \* the argument of a call of a module-level function

\* the state of DataHandler.getOutputPath and of the module-level functions
callVars == <<clobber, multi_file, written_files, disk, input>>

vars == <<config, dictOrder, pc, idx, n, grouped, file_list, files, groups, err,
          result, item_list, expanded, callVars>>

-----------------------------------------------------------------------------
(* Python values *)

Str(s) == [k |-> "str", s |-> s]
Bool(b) == [k |-> "bool", b |-> b]
List(q) == [k |-> "list", l |-> q]
Dict(f) == [k |-> "dict", d |-> f]

PyTrue == Bool(TRUE)
PyFalse == Bool(FALSE)

Empty == [x \in {} |-> Str("")]

Put(d, key, v) == [x \in (DOMAIN d) \cup {key} |-> IF x = key THEN v ELSE d[x]]
Del(d, key) == [x \in (DOMAIN d) \ {key} |-> d[x]]
Update(d1, d2) ==
    [x \in (DOMAIN d1) \cup (DOMAIN d2) |-> IF x \in DOMAIN d2 THEN d2[x] ELSE d1[x]]

\* hasattr(v, '__iter__') in Python 2: true of lists and dicts, false of str
HasIter(v) == v.k \in {"list", "dict"}

Ok(v) == [err |-> "", v |-> v]
Raise(e) == [err |-> e, v |-> List(<<>>)]

Reverse(q) == [i \in 1..Len(q) |-> q[Len(q) + 1 - i]]

\* Every key a dict of the model can hold, in one fixed order.  Python 2
\* iterates a dict in hash order, which the program does not control: a run
\* iterates every dict in this order or in its reverse (dictOrder).
AllKeys ==
    <<"file0", "file1", "file2", "file3", "group", "wildcard", "fields", "flag_field",
      "file_reader", "bins", "bin_list", "name", "epoch", "extent", "data_format", "object_type",
      "single", "coadd", "multiepoch", "CCD", "field", "patch", "tract",
      "image", "catalog", "star", "galaxy", "star PSF",
      "single-CCD-catalog", "single-field-catalog", "multiepoch-CCD-catalog",
      "multiepoch-field-catalog", "coadd-CCD-catalog", "coadd-field-catalog",
      "single-CCD-image", "single-field-image">>

SortedKeys(S) == SelectSeq(AllKeys, LAMBDA x : x \in S)

\* sorted(d.keys())
Sorted(d) == SortedKeys(DOMAIN d)

\* d.keys(), and the order of "for key in d"
Keys(d) == IF dictOrder = "asc" THEN Sorted(d) ELSE Reverse(Sorted(d))

-----------------------------------------------------------------------------
(* stile_utils *)

format_keys == <<"epoch", "extent", "data_format", "object_type">>
FormatKeySet == {format_keys[i] : i \in 1..4}

epochs == {"single", "coadd", "multiepoch"}
extents == {"CCD", "field", "patch", "tract"}
data_formats == {"image", "catalog"}
object_types == {"star", "galaxy", "star PSF"}

default_vals == <<epochs, extents, data_formats, object_types>>

\* stile_utils.Format(epoch, extent, data_format).str
FormatStr(epoch, extent, data_format) == epoch \o "-" \o extent \o "-" \o data_format

RECURSIVE flatten(_)
\* stile_utils.flatten: a scalar (or a dict) becomes a one-element list, nested
\* lists are spliced
flatten(v) ==
    IF v.k # "list" THEN <<v>>
    ELSE IF v.l = <<>> THEN <<>>
    ELSE flatten(Head(v.l)) \o flatten(List(Tail(v.l)))

-----------------------------------------------------------------------------
(* _recurseDict *)

DupFormat(item, kwargs) ==
    \E fk \in FormatKeySet : fk \in DOMAIN item /\ fk \in DOMAIN kwargs
MissingFormat(item, kwargs) ==
    \E fk \in FormatKeySet : fk \notin DOMAIN item /\ fk \notin DOMAIN kwargs
AllFormat(kwargs) == \A fk \in FormatKeySet : fk \in DOMAIN kwargs

RECURSIVE LeafItems(_, _, _, _)
\* lines 443-461: a leaf list that is not under epoch == 'multiepoch'
LeafItems(items, kwargs, req, acc) ==
    IF items = <<>> THEN Ok(List(acc))
    ELSE LET file == Head(items) IN
        IF file.k = "dict"
        THEN IF DupFormat(file.d, kwargs)
             \* line 449 builds its message from `item`, a local that is not
             \* bound on this path
             THEN Raise("UnboundLocalError")
             ELSE IF MissingFormat(file.d, kwargs) /\ req
             THEN Raise("ValueError: Incomplete definition of format")
             ELSE LeafItems(Tail(items), kwargs, req,
                            Append(acc, Dict(Update(kwargs, file.d))))
        ELSE IF ~AllFormat(kwargs)
             THEN Raise("ValueError: Incomplete definition of format")
             ELSE LeafItems(Tail(items), kwargs, req,
                            Append(acc, Dict(Put(kwargs, "name", file))))

RECURSIVE MultiItems(_, _, _, _)
\* lines 399-428: a list under multiepoch whose items are all iterable
MultiItems(items, kwargs, req, acc) ==
    IF items = <<>> THEN Ok(List(acc))
    ELSE LET item == Head(items) IN
        IF item.k = "dict"
        THEN IF DupFormat(item.d, kwargs)
             THEN Raise("ValueError: Duplicate definition of format")
             ELSE IF MissingFormat(item.d, kwargs) /\ req
             THEN Raise("ValueError: Incomplete definition of format")
             ELSE MultiItems(Tail(items), kwargs, req,
                             Append(acc, Dict(Update(kwargs, item.d))))
        ELSE IF ~AllFormat(kwargs)
             THEN Raise("ValueError: Incomplete definition of format")
             ELSE MultiItems(Tail(items), kwargs, req,
                             Append(acc, Dict(Put(kwargs, "name", item))))

\* lines 372-464: files is a list
RecurseList(items, req, kwargs) ==
    IF DOMAIN kwargs = {}
    THEN \* line 375: dict.get takes no keyword argument
         IF items = <<>> THEN Ok(List(items)) ELSE Raise("TypeError")
    ELSE IF (\E fk \in FormatKeySet : fk \in DOMAIN kwargs) \/ ~req
    THEN IF "epoch" \in DOMAIN kwargs /\ kwargs["epoch"] = Str("multiepoch")
         THEN IF \A i \in 1..Len(items) : HasIter(items[i])
              THEN MultiItems(items, kwargs, req, <<>>)
              ELSE IF \E i \in 1..Len(items) : HasIter(items[i])
              THEN Raise("ValueError: Cannot interpret list of items for multiepoch")
              \* line 434 updates pass_kwargs, which is not bound on this path
              ELSE Raise("UnboundLocalError")
         ELSE LeafItems(items, kwargs, req, <<>>)
    ELSE Raise("ValueError: File description does not include all format keywords")

\* lines 480-493: the control keys of a mapping go to pass_kwargs
ControlKwargs(f, kwargs) ==
    LET p1 == IF "group" \in DOMAIN f THEN Put(kwargs, "group", f["group"]) ELSE kwargs
        p2 == IF "wildcard" \in DOMAIN f THEN Put(p1, "wildcard", f["wildcard"]) ELSE p1
        p3 == IF "fields" \in DOMAIN f THEN Put(p2, "fields", f["fields"]) ELSE p2
        p4 == IF "flag_field" \in DOMAIN f
              THEN IF "flag_field" \in DOMAIN p3
                   THEN Put(p3, "flag_field", List(<<p3["flag_field"], f["flag_field"]>>))
                   ELSE Put(p3, "flag_field", f["flag_field"])
              ELSE p3
    IN  IF "file_reader" \in DOMAIN f THEN Put(p4, "file_reader", f["file_reader"]) ELSE p4

\* the mapping after lines 480-493: file_reader is read with get and stays
ControlRest(f) ==
    [x \in (DOMAIN f) \ {"group", "wildcard", "fields", "flag_field"} |-> f[x]]

\* return_list += v: a list is spliced, a dict adds its keys
Extend(out, v) ==
    IF v.k = "dict"
    THEN out \o [i \in 1..Len(Keys(v.d)) |-> Str(Keys(v.d)[i])]
    ELSE out \o v.l

RECURSIVE RecurseDict(_, _, _)
RECURSIVE KeyLoop(_, _, _, _, _)
RECURSIVE AxisLoop(_, _, _, _, _)

RECURSIVE KeyLoop_ContextKept(_, _, _, _, _)
\* the variant in which the control keys a branch sets stay in pass_kwargs
\* for the branches after it
KeyLoop_ContextKept(keys, fname, req, st, i) ==
    IF st.err # "" \/ i > Len(keys) THEN st
    ELSE LET key == keys[i] IN
        IF key \notin DOMAIN st.files
        THEN [st EXCEPT !.err = "KeyError"]
        ELSE LET pass == Put(st.pass, fname, Str(key))
                 r == RecurseDict(st.files[key], req, pass)
                 kept == IF st.files[key].k = "dict"
                         THEN ControlKwargs(st.files[key].d, pass) ELSE pass
             IN  IF r.err # ""
                 THEN [st EXCEPT !.err = r.err]
                 ELSE KeyLoop_ContextKept(keys, fname, req,
                                          [files |-> Del(st.files, key), pass |-> kept,
                                           out |-> Extend(st.out, r.v), err |-> ""],
                                          i + 1)

\* lines 504-509: st = [files, pass, out, err] is the state of the loop
KeyLoop(keys, fname, req, st, i) ==
    IF st.err # "" \/ i > Len(keys) THEN st
    ELSE LET key == keys[i] IN
        IF key \notin DOMAIN st.files
        THEN [st EXCEPT !.err = "KeyError"]
        ELSE LET pass == Put(st.pass, fname, Str(key))
                 r == RecurseDict(st.files[key], req, pass)
             IN  IF r.err # ""
                 THEN [st EXCEPT !.err = r.err]
                 ELSE KeyLoop(keys, fname, req,
                              [files |-> Del(st.files, key), pass |-> pass,
                               out |-> Extend(st.out, r.v), err |-> ""],
                              i + 1)

\* lines 496-509: keys is the list taken at line 496, a the axis number
AxisLoop(keys, kwargs, req, st, a) ==
    IF st.err # "" \/ a > 4 THEN st
    ELSE IF \E i \in 1..Len(keys) : keys[i] \in default_vals[a]
    THEN IF format_keys[a] \in DOMAIN kwargs
         THEN [st EXCEPT !.err = "ValueError: Duplicate definition of format"]
         ELSE AxisLoop(keys, kwargs, req, KeyLoop(keys, format_keys[a], req, st, 1), a + 1)
    ELSE AxisLoop(keys, kwargs, req, st, a + 1)

\* lines 511-528: the keys no axis consumed
Leftover(kwargs, req, st) ==
    IF st.err # "" THEN Raise(st.err)
    ELSE IF DOMAIN st.files = {} THEN Ok(List(st.out))
    ELSE IF "name" \in DOMAIN st.files
    THEN IF ~MissingFormat(st.files, kwargs) \/ ~req
         THEN IF DupFormat(st.files, kwargs)
              THEN Raise("ValueError: Duplicate definition of format")
              ELSE Ok(List(Append(st.out, Dict(Update(st.pass, st.files)))))
         ELSE Raise("ValueError: File description does not include all format keywords")
    ELSE Raise("ValueError: Unprocessed keys found")

\* _recurseDict(files, require_format_args=req, **kwargs)
RecurseDict(node, req, kwargs) ==
    IF node.k = "list" THEN RecurseList(node.l, req, kwargs)
    ELSE IF node.k # "dict" THEN Ok(Dict(Put(kwargs, "name", node)))
    ELSE LET rest == ControlRest(node.d)
             st0 == [files |-> rest, pass |-> ControlKwargs(node.d, kwargs),
                     out |-> <<>>, err |-> ""]
         IN  Leftover(kwargs, req, AxisLoop(Keys(rest), kwargs, req, st0, 1))

-----------------------------------------------------------------------------
(* _expandWildcard *)

\* The files on disk that a pattern matches, sorted.  A name without a
\* wildcard character is taken to exist.
Matches(p) ==
    IF p = "exp_*" THEN <<Str("exp_1"), Str("exp_2"), Str("exp_3")>>
    ELSE IF p = "oth_*" THEN <<Str("oth_1"), Str("oth_2")>>
    ELSE IF p = "none_*" THEN <<>>
    ELSE <<Str(p)>>

\* glob.glob(p): the matches in directory order
Glob(p) == IF dictOrder = "asc" THEN Matches(p) ELSE Reverse(Matches(p))

RECURSIVE ExpandWildcardHelper(_, _, _)
\* lines 538-571 for an item that is not a dict: names = item
ExpandWildcardHelper(names, wildcard, is_multiepoch) ==
    IF ~wildcard
    THEN IF is_multiepoch
         THEN IF names.k = "list" THEN names ELSE List(<<names>>)
         ELSE List(flatten(names))
    ELSE IF is_multiepoch
    THEN IF ~HasIter(names) THEN List(Matches(names.s))
         ELSE IF \E i \in 1..Len(names.l) : HasIter(names.l[i])
         THEN List([i \in 1..Len(names.l) |->
                       ExpandWildcardHelper(names.l[i], wildcard, is_multiepoch)])
         ELSE List([i \in 1..Len(names.l) |-> List(Matches(names.l[i].s))])
    ELSE IF HasIter(names)
    THEN List(flatten(List([i \in 1..Len(names.l) |->
                       ExpandWildcardHelper(names.l[i], wildcard, is_multiepoch)])))
    ELSE List(Glob(names.s))

\* "if r": an empty string and an empty list are false
Truthy(v) ==
    CASE v.k = "str" -> v.s # ""
      [] v.k = "list" -> v.l # <<>>
      [] v.k = "bool" -> v.b
      [] OTHER -> DOMAIN v.d # {}

\* lines 530-536 and 540-545 for a dict item: the new value of item['name']
ExpandWildcard(item) ==
    LET wildcard == IF "wildcard" \in DOMAIN item THEN Truthy(item["wildcard"]) ELSE FALSE
        is_multiepoch == "epoch" \in DOMAIN item /\ item["epoch"] = Str("multiepoch")
        return_list == ExpandWildcardHelper(item["name"], wildcard, is_multiepoch)
    IN  List(SelectSeq(return_list.l, Truthy))

-----------------------------------------------------------------------------
(* _group *)

\* '_stile_group_'+str(n)
GroupName(i) == "_stile_group_" \o ToString(i)

\* the variant that leaves out only an item whose group is False
Participates_UnlessFalse(l) == "group" \notin DOMAIN l \/ l["group"] # PyFalse

\* line 589: the item takes part in automatic grouping
Participates(l) == "group" \notin DOMAIN l \/ l["group"] = PyTrue

ItemFormat(l) == FormatStr(l["epoch"].s, l["extent"].s, l["data_format"].s)

\* format_dict[f][o] with idxs appended
AddIndices(fd, f, o, idxs) ==
    LET fo == IF f \in DOMAIN fd THEN fd[f] ELSE Empty
        old == IF o \in DOMAIN fo THEN fo[o] ELSE <<>>
    IN  Put(fd, f, Put(fo, o, old \o idxs))

RECURSIVE GroupCollect(_, _, _, _)
\* lines 584-607: return_list and format_dict (indices into return_list, from 1)
GroupCollect(list, i, out, fd) ==
    IF i > Len(list) THEN [out |-> out, fd |-> fd]
    ELSE LET l == list[i] IN
        IF DOMAIN l = {} THEN GroupCollect(list, i + 1, out, fd)
        ELSE IF Participates(l)
        THEN IF l["name"].k = "str" \/ l["epoch"] = Str("multiepoch")
             THEN GroupCollect(list, i + 1, Append(out, l),
                               AddIndices(fd, ItemFormat(l), l["object_type"].s,
                                          <<Len(out) + 1>>))
             ELSE LET names == l["name"].l
                      new == [j \in 1..Len(names) |-> Put(l, "name", names[j])]
                  IN  GroupCollect(list, i + 1, out \o new,
                                   AddIndices(fd, ItemFormat(l), l["object_type"].s,
                                              [j \in 1..Len(names) |-> Len(out) + j]))
        ELSE GroupCollect(list, i + 1, Append(out, l), fd)

\* line 614 without its comparison of the lengths
LengthsMatch_AnyLengths(fo) == Cardinality(DOMAIN fo) > 1

\* line 614: more than one object type, and all index lists of one length
LengthsMatch(fo) ==
    /\ Cardinality(DOMAIN fo) > 1
    /\ Cardinality({Len(fo[o]) : o \in DOMAIN fo}) = 1

\* lines 615-619 with the stars numbered from the end of their list
TagFormat_Crossed(out, fo, start) ==
    [x \in 1..Len(out) |->
        IF \E o \in DOMAIN fo : \E p \in 1..Len(fo[o]) : fo[o][p] = x
        THEN LET o == CHOOSE o \in DOMAIN fo : \E p \in 1..Len(fo[o]) : fo[o][p] = x
                 p == CHOOSE p \in 1..Len(fo[o]) : fo[o][p] = x
             IN  Put(out[x], "group",
                     Str(GroupName(start + (IF o = "star" THEN Len(fo[o]) - p ELSE p - 1))))
        ELSE out[x]]

\* lines 615-619: the i-th index of every object type gets the name n+i
TagFormat(out, fo, start) ==
    [x \in 1..Len(out) |->
        IF \E o \in DOMAIN fo : \E p \in 1..Len(fo[o]) : fo[o][p] = x
        THEN LET o == CHOOSE o \in DOMAIN fo : \E p \in 1..Len(fo[o]) : fo[o][p] = x
                 p == CHOOSE p \in 1..Len(fo[o]) : fo[o][p] = x
             IN  Put(out[x], "group", Str(GroupName(start + p - 1)))
        ELSE out[x]]

RECURSIVE GroupAssign(_, _, _, _, _)
\* lines 608-623: the loop over the formats of format_dict
GroupAssign(fkeys, i, fd, out, cur) ==
    IF i > Len(fkeys) THEN [out |-> out, n |-> cur]
    ELSE LET fo == fd[fkeys[i]] IN
        IF DOMAIN fo # {} /\ LengthsMatch(fo)
        THEN GroupAssign(fkeys, i + 1, fd, TagFormat(out, fo, cur),
                         cur + Len(fo[CHOOSE o \in DOMAIN fo : TRUE]))
        ELSE GroupAssign(fkeys, i + 1, fd, out, cur)

\* _group returning the n it was given
Group_CounterKept(list, start) ==
    LET c == GroupCollect(list, 1, <<>>, Empty)
    IN  [out |-> GroupAssign(Keys(c.fd), 1, c.fd, c.out, start).out, n |-> start]

\* _group(list, n): [out |-> return_list, n |-> n]
Group(list, start) ==
    LET c == GroupCollect(list, 1, <<>>, Empty)
    IN  GroupAssign(Keys(c.fd), 1, c.fd, c.out, start)

-----------------------------------------------------------------------------
(* _formatFileList *)

\* lines 640-650 with get in place of pop for the four format keys
Stripped_KeepsFormat(item, multi) ==
    [x \in (DOMAIN item) \ (IF multi THEN {} ELSE {"name"}) |-> item[x]]

\* the item without the keys _formatFileList pops
Stripped(item, multi) ==
    [x \in (DOMAIN item) \ (FormatKeySet \cup (IF multi THEN {} ELSE {"name"})) |-> item[x]]

\* the variant that splits the names of a multiepoch item as well
ItemEntries_Split(item) ==
    LET names == flatten(item["name"])
        base == Stripped(item, FALSE)
    IN  [j \in 1..Len(names) |-> Put(base, "name", names[j])]

\* lines 646-657: the dicts one item adds to its list
ItemEntries(item) ==
    IF item["epoch"] = Str("multiepoch") THEN <<Stripped(item, TRUE)>>
    ELSE LET names == flatten(item["name"])
             base == Stripped(item, FALSE)
         IN  [j \in 1..Len(names) |->
                 IF names[j].k = "dict" THEN Update(base, names[j].d)
                 ELSE Put(base, "name", names[j])]

RECURSIVE FormatFileList(_, _, _)
\* _formatFileList(list): format string -> object type -> list of dicts
FormatFileList(list, i, rd) ==
    IF i > Len(list) THEN rd
    ELSE LET item == list[i]
             f == ItemFormat(item)
             o == item["object_type"].s
             fo == IF f \in DOMAIN rd THEN rd[f] ELSE Empty
             old == IF o \in DOMAIN fo THEN fo[o] ELSE <<>>
         IN  FormatFileList(list, i + 1, Put(rd, f, Put(fo, o, old \o ItemEntries(item))))

-----------------------------------------------------------------------------
(* _parseFileHelper *)

RECURSIVE CheckItems(_, _, _)
\* lines 322-333 with "continue" in place of the raise of line 331
CheckItems_Drops(items, i, acc) ==
    IF i > Len(items) THEN Ok(acc)
    ELSE LET item == items[i] IN
        IF item.k # "dict" THEN Raise("ValueError: Expected a list of dicts")
        ELSE IF ~(\A fk \in FormatKeySet : fk \in DOMAIN item.d)
        THEN CheckItems(items, i + 1, acc)
        ELSE IF "name" \notin DOMAIN item.d THEN Raise("KeyError")
        ELSE CheckItems(items, i + 1,
                        Append(acc, Put(Del(item.d, "wildcard"), "name",
                                        ExpandWildcard(item.d))))

\* lines 322-333: every item is a dict with the four format keys; its name
\* is replaced by its wildcard expansion and its wildcard key is popped
CheckItems(items, i, acc) ==
    IF i > Len(items) THEN Ok(acc)
    ELSE LET item == items[i] IN
        IF item.k # "dict" THEN Raise("ValueError: Expected a list of dicts")
        ELSE IF ~(\A fk \in FormatKeySet : fk \in DOMAIN item.d)
        THEN Raise("ValueError: file item missing one of the required format keywords")
        ELSE IF "name" \notin DOMAIN item.d THEN Raise("KeyError")
        ELSE CheckItems(items, i + 1,
                        Append(acc, Put(Del(item.d, "wildcard"), "name",
                                        ExpandWildcard(item.d))))

\* lines 305-319: the flat list of a source
SourceList(file_obj) ==
    IF file_obj.k = "dict" THEN RecurseDict(file_obj, TRUE, Empty)
    ELSE IF ~HasIter(file_obj)
    THEN Raise("ValueError: file config keyword must be a list or dict")
    ELSE IF \E i \in 1..Len(file_obj.l) : file_obj.l[i].k # "dict"
    THEN Raise("ValueError: If file parameter is a list, each element must be a dict")
    ELSE Ok(List([i \in 1..Len(file_obj.l) |->
                    IF "group" \in DOMAIN file_obj.l[i].d THEN file_obj.l[i]
                    ELSE Dict(Put(file_obj.l[i].d, "group", PyFalse))]))

\* lines 305-333: the checked and expanded list handed to _group
Normalized(file_obj) ==
    LET src == SourceList(file_obj)
    IN  IF src.err # "" THEN src
        ELSE IF src.v.k = "dict" THEN Raise("ValueError: Expected a list of dicts")
        ELSE CheckItems(src.v.l, 1, <<>>)

\* _parseFileHelper(files, start_n): [err, grouped, val, n]
ParseFileHelper(file_obj, start_n) ==
    LET chk == Normalized(file_obj)
    IN  IF chk.err # ""
        THEN [err |-> chk.err, grouped |-> <<>>, val |-> Empty, n |-> start_n]
        ELSE LET g == Group(chk.v, start_n)
             IN  [err |-> "", grouped |-> g.out,
                  val |-> FormatFileList(g.out, 1, Empty), n |-> g.n]

-----------------------------------------------------------------------------
(* _fixGroupings, _merge *)

\* the variant that puts the lists of dict2 first
Merge_Prepends(dict1, dict2) ==
    [o \in (DOMAIN dict1) \cup (DOMAIN dict2) |->
        IF o \in DOMAIN dict1
        THEN IF o \in DOMAIN dict2 THEN dict2[o] \o dict1[o] ELSE dict1[o]
        ELSE dict2[o]]

\* _merge(dict1, dict2): lists under a key of both are concatenated
Merge(dict1, dict2) ==
    [o \in (DOMAIN dict1) \cup (DOMAIN dict2) |->
        IF o \in DOMAIN dict1
        THEN IF o \in DOMAIN dict2 THEN dict1[o] \o dict2[o] ELSE dict1[o]
        ELSE dict2[o]]

\* lines 670-674: one more source dict merged into files
MergeSource(fs, d) ==
    [f \in (DOMAIN fs) \cup (DOMAIN d) |->
        IF f \in DOMAIN fs
        THEN IF f \in DOMAIN d THEN Merge(fs[f], d[f]) ELSE fs[f]
        ELSE d[f]]

RECURSIVE MergeAll(_, _, _)
\* lines 668-674
MergeAll(list_of_dicts, i, fs) ==
    IF i > Len(list_of_dicts) THEN fs
    ELSE MergeAll(list_of_dicts, i + 1, MergeSource(fs, list_of_dicts[i]))

\* lines 679-681 and 688-689: a boolean group marker is deleted
DelBoolGroup(item) ==
    IF "group" \in DOMAIN item /\ item["group"].k = "bool" THEN Del(item, "group") ELSE item

\* lines 690-694: the two items differ in nothing but 'group'
SameButGroup(item1, item2) ==
    LET diff == ((DOMAIN item1) \ (DOMAIN item2)) \cup ((DOMAIN item2) \ (DOMAIN item1))
    IN  /\ diff = {} \/ diff = {"group"}
        /\ \A ikey \in (DOMAIN item1) \ {"group"} : item1[ikey] = item2[ikey]

\* item.get('group', []) flattened
GroupTags(item) == IF "group" \in DOMAIN item THEN flatten(item["group"]) ELSE <<>>

\* lines 695-696: the group of the first item after fusing the second into it
FusedGroup(item1, item2) == List(GroupTags(item1) \o GroupTags(item2))

RECURSIVE FixInner(_, _, _, _)
\* lines 682-697: st = [lst, del], items i and j of the list (from 1)
FixInner(st, i, j, len) ==
    IF j > len THEN st
    ELSE LET l1 == [st.lst EXCEPT ![j] = DelBoolGroup(st.lst[j])]
         IN  IF j \notin st.del /\ SameButGroup(l1[i], l1[j])
             THEN FixInner([lst |-> [l1 EXCEPT ![i] =
                                        Put(l1[i], "group", FusedGroup(l1[i], l1[j]))],
                            del |-> st.del \cup {j}], i, j + 1, len)
             ELSE FixInner([lst |-> l1, del |-> st.del], i, j + 1, len)

RECURSIVE FixOuter(_, _)
\* lines 678-697
FixOuter(st, i) ==
    IF i > Len(st.lst) THEN st
    ELSE FixOuter(FixInner([lst |-> [st.lst EXCEPT ![i] = DelBoolGroup(st.lst[i])],
                            del |-> st.del], i, i + 1, Len(st.lst)), i + 1)

RECURSIVE Without(_, _, _)
\* lines 700-703: the list without the positions of del_list
Without(lst, del, i) ==
    IF i > Len(lst) THEN <<>>
    ELSE IF i \in del THEN Without(lst, del, i + 1)
    ELSE <<lst[i]>> \o Without(lst, del, i + 1)

\* lines 677-703 for one list files[key][obj_type]
FixList(lst) ==
    LET st == FixOuter([lst |-> lst, del |-> {}], 1)
    IN  Without(st.lst, st.del, 1)

\* lines 675-703
FixAll(fs) == [f \in DOMAIN fs |-> [o \in DOMAIN fs[f] |-> FixList(fs[f][o])]]

-----------------------------------------------------------------------------
(* _getGroups, _removeGroup *)

\* the variant that reads only the first name of a list of names
TagNames_FirstOnly(item) ==
    LET tags == IF item["group"].k = "list" THEN item["group"].l ELSE <<item["group"]>>
        names == SelectSeq(tags, LAMBDA t : t.k # "bool")
    IN  IF names = <<>> THEN <<>> ELSE <<names[1]>>

\* lines 758-761: the names of a group value that are not booleans
TagNames(item) ==
    LET tags == IF item["group"].k = "list" THEN item["group"].l ELSE <<item["group"]>>
    IN  SelectSeq(tags, LAMBDA t : t.k # "bool")

RECURSIVE ReverseNames(_, _, _, _, _, _)
\* lines 760-772 without the raises of lines 765 and 768: the last item wins
ReverseNames_Overwrites(rg, f, o, pos, names, i) ==
    IF rg.err # "" \/ i > Len(names) THEN rg
    ELSE LET g == names[i].s
             known == g \in DOMAIN rg.map
             fo == IF known /\ f \in DOMAIN rg.map[g] THEN rg.map[g][f] ELSE Empty
         IN  ReverseNames([map |-> Put(rg.map, g, Put(Empty, f, Put(fo, o, pos))),
                           order |-> IF known THEN rg.order ELSE Append(rg.order, g),
                           err |-> ""],
                          f, o, pos, names, i + 1)

\* lines 760-772 for the names of one item: rg = [map, order, err]
ReverseNames(rg, f, o, pos, names, i) ==
    IF rg.err # "" \/ i > Len(names) THEN rg
    ELSE LET g == names[i].s
             known == g \in DOMAIN rg.map
         IN  IF known /\ f \notin DOMAIN rg.map[g]
             THEN [rg EXCEPT !.err = "ValueError: More than one format type found in group"]
             ELSE IF known /\ o \in DOMAIN rg.map[g][f]
             THEN [rg EXCEPT !.err = "RuntimeError: Multiple files with same object type"]
             ELSE LET fo == IF known THEN rg.map[g][f] ELSE Empty
                  IN  ReverseNames([map |-> Put(rg.map, g, Put(Empty, f, Put(fo, o, pos))),
                                    order |-> IF known THEN rg.order ELSE Append(rg.order, g),
                                    err |-> ""],
                                   f, o, pos, names, i + 1)

RECURSIVE ReverseItems(_, _, _, _, _)
\* line 757: the items of one list that have a group, pos the index from 0
ReverseItems(rg, fs, f, o, pos) ==
    IF rg.err # "" \/ pos >= Len(fs[f][o]) THEN rg
    ELSE LET item == fs[f][o][pos + 1]
         IN  IF "group" \in DOMAIN item
             THEN ReverseItems(ReverseNames(rg, f, o, pos, TagNames(item), 1), fs, f, o, pos + 1)
             ELSE ReverseItems(rg, fs, f, o, pos + 1)

RECURSIVE ReverseObjs(_, _, _, _, _)
\* line 756
ReverseObjs(rg, fs, f, okeys, i) ==
    IF rg.err # "" \/ i > Len(okeys) THEN rg
    ELSE ReverseObjs(ReverseItems(rg, fs, f, okeys[i], 0), fs, f, okeys, i + 1)

RECURSIVE ReverseFormats(_, _, _, _)
\* line 755
ReverseFormats(rg, fs, fkeys, i) ==
    IF rg.err # "" \/ i > Len(fkeys) THEN rg
    ELSE ReverseFormats(ReverseObjs(rg, fs, fkeys[i], Keys(fs[fkeys[i]]), 1), fs, fkeys, i + 1)

\* reverse_groups of lines 752-772
ReverseGroups(fs) ==
    ReverseFormats([map |-> Empty, order |-> <<>>, err |-> ""], fs, Keys(fs), 1)

\* lines 793-799 for one file
RemoveFromItem(item, group) ==
    IF "group" \notin DOMAIN item THEN item
    ELSE IF item["group"].k = "list"
    THEN LET l == item["group"].l
             hit == {p \in 1..Len(l) : l[p] = Str(group)}
         IN  IF hit = {} THEN item
             ELSE LET first == CHOOSE p \in hit : \A q \in hit : p <= q
                  IN  Put(item, "group", List(Without(l, {first}, 1)))
    ELSE IF item["group"] = Str(group) THEN Put(item, "group", PyTrue)
    ELSE item

\* _removeGroup leaving every file as it is
RemoveGroup_Kept(fs, group) == fs

\* _removeGroup(file_dict, group)
RemoveGroup(fs, group) ==
    [f \in DOMAIN fs |-> [o \in DOMAIN fs[f] |->
        [p \in 1..Len(fs[f][o]) |-> RemoveFromItem(fs[f][o][p], group)]]]

RECURSIVE DedupInner(_, _, _, _)
\* lines 778-783: st = [map, del, files]
DedupInner(st, keys, i, j) ==
    IF j > Len(keys) THEN st
    ELSE IF keys[j] \notin st.del /\ st.map[keys[i]] = st.map[keys[j]]
    THEN DedupInner([map |-> Del(st.map, keys[j]), del |-> st.del \cup {keys[j]},
                     files |-> RemoveGroup(st.files, keys[j])], keys, i, j + 1)
    ELSE DedupInner(st, keys, i, j + 1)

RECURSIVE DedupGroups(_, _, _)
\* lines 774-783: keys is reverse_groups.keys() taken at line 775
DedupGroups(st, keys, i) ==
    IF i > Len(keys) THEN st
    ELSE IF keys[i] \in st.del THEN DedupGroups(st, keys, i + 1)
    ELSE DedupGroups(DedupInner(st, keys, i, i + 1), keys, i + 1)

\* _getGroups with the raises of lines 765 and 768 caught: no groups
GetGroups_Swallows(fs) ==
    IF DOMAIN fs = {} THEN [err |-> "", groups |-> Empty, files |-> fs]
    ELSE LET rg == ReverseGroups(fs)
             keys == IF dictOrder = "asc" THEN rg.order ELSE Reverse(rg.order)
         IN  IF rg.err # "" THEN [err |-> "", groups |-> Empty, files |-> fs]
             ELSE LET st == DedupGroups([map |-> rg.map, del |-> {}, files |-> fs], keys, 1)
                  IN  [err |-> "", groups |-> st.map, files |-> st.files]

\* _getGroups(file_dict): [err, groups, files]; files is file_dict as
\* _removeGroup leaves it
GetGroups(fs) ==
    IF DOMAIN fs = {} THEN [err |-> "", groups |-> Empty, files |-> fs]
    ELSE LET rg == ReverseGroups(fs)
             keys == IF dictOrder = "asc" THEN rg.order ELSE Reverse(rg.order)
         IN  IF rg.err # "" THEN [err |-> rg.err, groups |-> Empty, files |-> fs]
             ELSE LET st == DedupGroups([map |-> rg.map, del |-> {}, files |-> fs], keys, 1)
                  IN  [err |-> "", groups |-> st.map, files |-> st.files]

\* _fixGroupings(list_of_dicts): [err, files, groups]
FixGroupings(list_of_dicts) ==
    IF list_of_dicts = <<>> THEN [err |-> "", files |-> Empty, groups |-> Empty]
    ELSE LET merged == MergeAll(list_of_dicts, 2, list_of_dicts[1])
             g == GetGroups(FixAll(merged))
         IN  [err |-> g.err, files |-> g.files, groups |-> g.groups]

-----------------------------------------------------------------------------
(* addKwarg *)

\* lines 835 and 841-846 for one file that meets the restrictions
AddKwargFile(file, key, value, append) ==
    IF key \notin DOMAIN file \/ ~Truthy(file[key]) \/ append
    THEN IF append
         THEN IF file[key].k = "list"
              THEN Put(file, key, List(Append(file[key].l, value)))
              ELSE Put(file, key, List(<<file[key], value>>))
         ELSE Put(file, key, value)
    ELSE file

\* line 842 reads file[key] of a file that has no such key
AddKwargRaises(file_dicts, key, append) ==
    /\ append
    /\ \E i \in 1..Len(file_dicts) : \E f \in DOMAIN file_dicts[i] :
          \E o \in DOMAIN file_dicts[i][f] : \E p \in 1..Len(file_dicts[i][f][o]) :
              key \notin DOMAIN file_dicts[i][f][o][p]

\* format.split('-') as a set.  Line 838 tests "format_key in format" on the
\* string; no epoch, extent or data format is part of another one, so for
\* these values the test holds exactly for the members of this set.
FormatParts(f) ==
    {x \in epochs \cup extents \cup data_formats :
        \E e \in epochs, ex \in extents, df \in data_formats :
            FormatStr(e, ex, df) = f /\ x \in {e, ex, df}}

\* object_type_key=None
NoKey == Str("")

\* lines 831-846: value added to the files that meet the restrictions
AddKwargAll(key, value, file_dicts, fkeys, object_type_key, append) ==
    [i \in 1..Len(file_dicts) |->
       [f \in DOMAIN file_dicts[i] |->
          [o \in DOMAIN file_dicts[i][f] |->
             [p \in 1..Len(file_dicts[i][f][o]) |->
                IF /\ \A x \in 1..Len(fkeys) :
                          fkeys[x].k = "str" /\ fkeys[x].s \in FormatParts(f)
                   /\ (object_type_key = NoKey \/ Str(o) = object_type_key)
                THEN AddKwargFile(file_dicts[i][f][o][p], key, value, append)
                ELSE file_dicts[i][f][o][p]]]]]

RECURSIVE AddKwargRec(_, _, _, _, _, _)
RECURSIVE AddKwargLoop(_, _, _, _, _, _, _)
\* addKwarg(key, value, file_dicts, format_keys=fkeys, object_type_key, append):
\* [fd, value], the file dicts and the dict `value` as the call leaves them
\* (the callee pops from the dict its caller goes on to use)
AddKwargRec(key, value, file_dicts, fkeys, object_type_key, append) ==
    IF value.k # "dict" \/ DOMAIN value.d = {"name"}
    THEN [fd |-> AddKwargAll(key, IF value.k = "dict" THEN value.d["name"] ELSE value,
                             file_dicts, fkeys, object_type_key, append),
          value |-> IF value.k = "dict" THEN Dict(Empty) ELSE value]
    ELSE LET present == UNION {UNION {DOMAIN file_dicts[i][f] : f \in DOMAIN file_dicts[i]}
                               : i \in 1..Len(file_dicts)}
             parts == UNION {UNION {FormatParts(f) : f \in DOMAIN file_dicts[i]}
                             : i \in 1..Len(file_dicts)}
         IN  IF (DOMAIN value.d) \cap (present \cup parts) = {} /\ key = "fields"
             THEN [fd |-> AddKwargRec(key, Dict(Put(Empty, "name", value)), file_dicts,
                                      fkeys, object_type_key, append).fd,
                   value |-> value]
             ELSE AddKwargLoop(key, value, file_dicts, fkeys, object_type_key,
                               Keys(value.d), 1)

\* lines 863-882: the loop over value_keys, from the i-th on
AddKwargLoop(key, value, file_dicts, fkeys, object_type_key, value_keys, i) ==
    IF i > Len(value_keys) THEN [fd |-> file_dicts, value |-> value]
    ELSE IF value_keys[i] \notin DOMAIN value.d
    THEN AddKwargLoop(key, value, file_dicts, fkeys, object_type_key, value_keys, i + 1)
    ELSE LET value_key == value_keys[i]
             new_value == value.d[value_key]
             rest == Dict(Del(value.d, value_key))
             present == UNION {UNION {DOMAIN file_dicts[x][f] : f \in DOMAIN file_dicts[x]}
                               : x \in 1..Len(file_dicts)}
             r == IF value_key \in {"extent", "data_format", "epoch"}
                  THEN AddKwargRec(key, rest, file_dicts,
                                   flatten(List(Append(fkeys, new_value))),
                                   object_type_key, FALSE)
                  ELSE IF value_key = "object_type"
                  THEN AddKwargRec(key, rest, file_dicts, fkeys, new_value, FALSE)
                  ELSE IF value_key \in present
                  THEN [fd |-> AddKwargRec(key, new_value, file_dicts, fkeys,
                                           Str(value_key), FALSE).fd,
                        value |-> rest]
                  ELSE IF value_key = "name"
                  THEN [fd |-> AddKwargRec(key, new_value, file_dicts, fkeys,
                                           object_type_key, FALSE).fd,
                        value |-> rest]
                  ELSE [fd |-> AddKwargRec(key, new_value, file_dicts,
                                           Append(fkeys, Str(value_key)),
                                           object_type_key, FALSE).fd,
                        value |-> rest]
         IN  AddKwargLoop(key, r.value, r.fd, fkeys, object_type_key, value_keys, i + 1)

\* addKwarg(key, value, file_dicts, append=append)
AddKwarg(key, value, file_dicts, append) ==
    IF (value.k # "dict" \/ DOMAIN value.d = {"name"}) /\ AddKwargRaises(file_dicts, key, append)
    THEN Raise("KeyError")
    ELSE Ok(AddKwargRec(key, value, file_dicts, <<>>, NoKey, append).fd)

\* lines 284-297: the top-level fields, flag_field and file_reader
TopLevelKwargs(stile_args, file_dicts) ==
    LET top(key) == IF key \in DOMAIN stile_args THEN stile_args[key] ELSE List(<<>>)
        r1 == IF Truthy(top("fields"))
              THEN AddKwarg("fields", top("fields"), file_dicts, FALSE) ELSE Ok(file_dicts)
        r2 == IF r1.err # "" THEN r1
              ELSE IF Truthy(top("flag_field"))
              THEN AddKwarg("flag_field", top("flag_field"), r1.v, TRUE) ELSE r1
    IN  IF r2.err # "" THEN r2
        ELSE IF Truthy(top("file_reader"))
        THEN AddKwarg("file_reader", top("file_reader"), r2.v, FALSE) ELSE r2

-----------------------------------------------------------------------------
(* The configurations of the model *)

\* longest leaf list of a source
MaxLen == 2
\* deepest nesting of single-key mappings above a leaf
MaxDepth == 4
\* most file sources ("file0", "file1", ...) of a configuration
MaxSources == 2

\* the lists of 1..m names over the names A
NameLists(A, m) ==
    UNION {{List([i \in 1..k |-> Str(q[i])]) : q \in [1..k -> A]} : k \in 1..m}

ObjNames == [o \in object_types |->
                CASE o = "star" -> {"a", "b"}
                  [] o = "galaxy" -> {"c", "d"}
                  [] OTHER -> {"e"}]

\* the mappings object type -> leaf list, over the object types of O
Leaves(O, m) ==
    UNION {{Dict(f) : f \in [S -> UNION {NameLists(ObjNames[o], m) : o \in S}]
                      \ {g \in [S -> UNION {NameLists(ObjNames[o], m) : o \in S}] :
                            \E o \in S : g[o] \notin NameLists(ObjNames[o], m)}}
           : S \in (SUBSET O) \ {{}}}

\* {[group: gv,] single: {x: {catalog: leaf}, ...}}, byExtent: extent -> leaf
Tree(gv, byExtent) ==
    LET body == Dict(Put(Empty, "single",
                    Dict([x \in DOMAIN byExtent |->
                            Dict(Put(Empty, "catalog", byExtent[x]))])))
    IN  IF gv = Str("") THEN body ELSE Dict(Put(body.d, "group", gv))

NoGroup == Str("")

\* one format, up to three object types, lists of up to MaxLen names
RichTrees ==
    {Tree(gv, Put(Empty, "CCD", leaf)) :
        gv \in {NoGroup, PyTrue, PyFalse, Str("g1")}, leaf \in Leaves(object_types, MaxLen)}

\* one format, stars and galaxies, lists of one name
SmallTrees ==
    {Tree(gv, Put(Empty, x, leaf)) :
        gv \in {NoGroup, Str("g1")}, x \in {"CCD", "field"},
        leaf \in Leaves({"star", "galaxy"}, 1)}

\* the trees of a configuration of several sources: stars, galaxies or both,
\* one name each
PairTrees ==
    {Tree(gv, Put(Empty, x, leaf)) :
        gv \in {NoGroup, Str("g1")}, x \in {"CCD", "field"},
        leaf \in {Dict(Put(Empty, "star", List(<<Str("a")>>))),
                  Dict(Put(Empty, "galaxy", List(<<Str("c")>>))),
                  Dict(Put(Put(Empty, "star", List(<<Str("a")>>)),
                           "galaxy", List(<<Str("c")>>)))}}

\* two formats in one source
TwoFormatTrees ==
    {Tree(gv, Put(Put(Empty, "CCD", l1), "field", l2)) :
        gv \in {NoGroup, Str("g1")},
        l1 \in Leaves({"star", "galaxy"}, 1), l2 \in Leaves({"star", "galaxy"}, 1)}

RECURSIVE Chain(_, _)
\* {k1: {k2: ... leaf}}
Chain(keys, leaf) ==
    IF keys = <<>> THEN leaf
    ELSE Dict(Put(Empty, Head(keys), Chain(Tail(keys), leaf)))

ChainKeys == {"single", "multiepoch", "CCD", "catalog", "star"}

\* a descriptor mapping with a name and at most one classification key
NameDicts ==
    {Dict(Put(Empty, "name", Str("a")))}
    \cup {Dict(Put(Put(Empty, "name", Str("a")), "epoch", Str("single"))),
          Dict(Put(Put(Empty, "name", Str("a")), "extent", Str("field"))),
          Dict(Put(Put(Empty, "name", Str("a")), "data_format", Str("catalog"))),
          Dict(Put(Put(Empty, "name", Str("a")), "object_type", Str("galaxy")))}

ChainLeaves ==
    {Str("a"), List(<<Str("a")>>), List(<<Str("a"), Str("b")>>),
     List(<<List(<<Str("a"), Str("b")>>)>>),
     List(<<Str("a"), Dict(Put(Empty, "name", Str("b")))>>)}
    \cup NameDicts
    \cup {List(<<d>>) : d \in NameDicts}

\* the sequences of 3..MaxDepth keys, no key twice
ChainSeqs ==
    UNION {{q \in [1..k -> ChainKeys] : \A i, j \in 1..k : q[i] = q[j] => i = j}
           : k \in 3..MaxDepth}

\* chains of single-key mappings above a leaf
ChainTrees == {Chain(q, leaf) : q \in ChainSeqs, leaf \in ChainLeaves}

\* the dicts of a source that is a list
FlatDicts ==
    LET full(o, nm) == [epoch |-> Str("single"), extent |-> Str("CCD"),
                        data_format |-> Str("catalog"), object_type |-> Str(o),
                        name |-> Str(nm)]
    IN  {Dict(full("star", "a")), Dict(full("galaxy", "c")),
         Dict(Put(full("star", "a"), "group", PyTrue)),
         Dict(Put(full("galaxy", "c"), "group", PyTrue)),
         Dict(Del(full("star", "a"), "extent")),
         Dict(Del(full("star", "a"), "name"))}

ListSources == {List(q) : q \in UNION {[1..k -> FlatDicts] : k \in 1..MaxLen}}

\* the values the configurations give a control key at the outer mapping,
\* at an inner mapping and on a dict element of the leaf list
ControlValues ==
    [group |-> <<Str("g1"), Str("g2"), PyFalse>>,
     wildcard |-> <<PyTrue, PyFalse, PyTrue>>,
     fields |-> <<List(<<Str("x")>>), List(<<Str("y")>>), List(<<Str("z")>>)>>,
     file_reader |-> <<Str("ASCII"), Str("FITS"), Str("HDF")>>,
     flag_field |-> <<Str("f1"), Str("f2"), Str("f3")>>]

\* v, or nothing, under key
Maybe(d, key, v, given) == IF given THEN Put(d, key, v) ELSE d

\* {[K: v1,] single: {CCD: {[K: v2,] catalog: {star: leaf}}}}, the leaf a
\* list [a, {name: b[, K: v3]}] or a terminal mapping {name: b[, K: v3]}
ControlTree(K, outer, inner, own, asList) ==
    LET v == ControlValues[K]
        last == Dict(Maybe(Put(Empty, "name", Str("b")), K, v[3], own))
        leaf == IF asList THEN List(<<Str("a"), last>>) ELSE last
        mid == Dict(Maybe(Put(Empty, "catalog", Dict(Put(Empty, "star", leaf))), K, v[2], inner))
    IN  Dict(Maybe(Put(Empty, "single", Dict(Put(Empty, "CCD", mid))), K, v[1], outer))

ControlTrees ==
    {ControlTree(K, outer, inner, own, asList) :
        K \in DOMAIN ControlValues, outer \in BOOLEAN, inner \in BOOLEAN,
        own \in BOOLEAN, asList \in BOOLEAN}

\* {wildcard: True, E: {CCD: {catalog: {star: leaf}}}}, the name of the leaf
\* a pattern or a list of patterns
WildcardTrees ==
    LET names == {Str("exp_*"), Str("none_*"), List(<<Str("exp_*"), Str("oth_*")>>),
                  List(<<Str("oth_*"), Str("none_*"), Str("exp_*")>>)}
        leaves == UNION {{Dict(Put(Empty, "name", nm)), List(<<Dict(Put(Empty, "name", nm))>>)}
                         : nm \in names}
    IN  {Dict(Put(Put(Empty, "wildcard", PyTrue), E,
                  Dict(Put(Empty, "CCD", Dict(Put(Empty, "catalog",
                      Dict(Put(Empty, "star", leaf)))))))) :
            E \in {"single", "multiepoch"}, leaf \in leaves}

SingleSources ==
    RichTrees \cup TwoFormatTrees \cup SmallTrees \cup ChainTrees \cup ListSources
    \cup ControlTrees \cup WildcardTrees

FileKey(i) == AllKeys[i]

\* a small tree next to a source that is a list of one dict, in both orders
MixedConfigs ==
    LET good == {Tree(NoGroup, Put(Empty, "CCD", leaf)) : leaf \in Leaves({"star", "galaxy"}, 1)}
        lists == {List(<<d>>) : d \in FlatDicts}
    IN  {Put(Put(Empty, FileKey(1), t), FileKey(2), b) : t \in good, b \in lists}
        \cup {Put(Put(Empty, FileKey(1), b), FileKey(2), t) : t \in good, b \in lists}

\* a top-level flag_field over a source that sets flag_field at some levels
FlagConfigs ==
    {Put(Put(Empty, FileKey(1), ControlTree("flag_field", outer, inner, own, asList)),
         "flag_field", Str("f0")) :
        outer \in BOOLEAN, inner \in BOOLEAN, own \in BOOLEAN, asList \in BOOLEAN}

\* two sources that list stars of one format, in some order
OrderConfigs ==
    LET lists == {List(<<Str("a")>>), List(<<Str("b")>>), List(<<Str("a"), Str("b")>>),
                  List(<<Str("b"), Str("a")>>)}
        tree(l) == Tree(NoGroup, Put(Empty, "CCD", Dict(Put(Empty, "star", l))))
    IN  {Put(Put(Empty, FileKey(1), tree(l1)), FileKey(2), tree(l2)) :
            l1 \in lists, l2 \in lists}

\* a top-level group or wildcard next to sources that may set the key
\* themselves: stars and galaxies of one format, or a star named by a pattern
TopControlConfigs ==
    LET pair(gv) == Tree(gv, Put(Empty, "CCD",
                        Dict(Put(Put(Empty, "star", List(<<Str("a")>>)),
                                 "galaxy", List(<<Str("c")>>)))))
        pattern(own) == Dict(Put(Empty, "single", Dict(Put(Empty, "CCD",
                            Dict(Put(Empty, "catalog", Dict(Put(Empty, "star",
                                Dict(Maybe(Put(Empty, "name", Str("exp_*")),
                                           "wildcard", PyFalse, own))))))))))
    IN  {Put(Put(Empty, FileKey(1), pair(gv)), "group", top) :
            gv \in {NoGroup, PyTrue, PyFalse}, top \in {PyTrue, PyFalse}}
        \cup {Put(Put(Put(Empty, FileKey(1), pair(NoGroup)), FileKey(2), pair(NoGroup)),
                  "group", PyFalse)}
        \cup {Put(Put(Empty, FileKey(1), pattern(own)), "wildcard", top) :
                  own \in BOOLEAN, top \in {PyTrue, PyFalse}}

\* a top-level fields or file_reader, plain or restricted to a format value
\* or an object type, over stars of one format, one of which may have the
\* key of its own, and a galaxy of another format
GlobalConfigs ==
    LET D2(k1, v1, k2, v2) == Dict(Put(Put(Empty, k1, v1), k2, v2))
        shapes(v) == {v, D2("name", v, "extent", Str("CCD")),
                      D2("name", v, "object_type", Str("galaxy")),
                      Dict(Put(Empty, "CCD", v)),
                      Dict(Put(Empty, "star", Dict(Put(Empty, "name", v)))),
                      Dict(Put(D2("name", v, "extent", Str("CCD")).d, "object_type", Str("star")))}
        values == [fields |-> shapes(List(<<Str("x")>>)), file_reader |-> shapes(Str("ASCII"))]
        source(K, own) ==
            Tree(NoGroup,
                 Put(Put(Empty, "CCD",
                         Dict(Put(Empty, "star",
                             List(<<Str("a"), Dict(Maybe(Put(Empty, "name", Str("b")),
                                                        K, ControlValues[K][3], own))>>)))),
                     "field", Dict(Put(Empty, "galaxy", List(<<Str("c")>>)))))
    IN  UNION {{Put(Put(Empty, FileKey(1), source(K, own)), K, v) :
                   v \in values[K], own \in BOOLEAN} : K \in {"fields", "file_reader"}}

\* two extents next to each other in one mapping, each branch with a control
\* key of its own or none, with the same or another data format
SiblingConfigs ==
    LET branch(K, df, nm) ==
            Dict(Maybe(Put(Empty, df, Dict(Put(Empty, "star", List(<<Str(nm)>>)))),
                       K, ControlValues[IF K = "" THEN "group" ELSE K][1], K # ""))
        controls == {"", "group", "wildcard", "fields", "flag_field"}
    IN  {Put(Empty, FileKey(1),
             Dict(Put(Empty, "single",
                      Dict(Put(Put(Empty, "CCD", branch(K1, "catalog", "a")),
                               "field", branch(K2, df, "b")))))) :
            K1 \in controls, K2 \in controls, df \in {"catalog", "image"}}

\* stile_args: one source of any kind, or 2..MaxSources trees of PairTrees,
\* or a small tree and a list
Configs ==
    {Put(Empty, FileKey(1), t) : t \in SingleSources}
    \cup MixedConfigs
    \cup FlagConfigs
    \cup OrderConfigs
    \cup TopControlConfigs
    \cup GlobalConfigs
    \cup SiblingConfigs
    \cup UNION {{[x \in {FileKey(i) : i \in 1..k} |->
                    q[CHOOSE i \in 1..k : FileKey(i) = x]] : q \in [1..k -> PairTrees]}
                : k \in 2..MaxSources}

-----------------------------------------------------------------------------
(* parseFiles *)

\* lines 273, 276-278: the sorted keys that name file sources.  The values
\* of a top-level 'group' and 'wildcard' are read at lines 269-272 and the
\* keys deleted; no later line uses the values.
FileKeys(stile_args) ==
    SelectSeq(Sorted(stile_args),
              LAMBDA key : key \in {"file0", "file1", "file2", "file3"})

\* no list/query method was called yet
NoResult == [op |-> "none", v |-> <<>>]

\* no output path was asked for and no module-level function was called
NoCalls ==
    /\ clobber = FALSE
    /\ multi_file = FALSE
    /\ written_files = <<>>
    /\ disk = {}
    /\ input = <<>>

Init ==
    /\ config \in Configs
    /\ dictOrder \in {"asc", "desc"}
    /\ pc = "parse"
    /\ idx = 0
    /\ n = 0
    /\ grouped = <<>>
    /\ file_list = <<>>
    /\ files = Empty
    /\ groups = Empty
    /\ err = ""
    /\ result = NoResult
    /\ item_list = <<>>
    /\ expanded = <<>>
    /\ NoCalls

\* lines 276-281: one turn of the loop over the file keys
ParseFile ==
    /\ pc = "parse"
    /\ idx < Len(FileKeys(config))
    /\ LET r == ParseFileHelper(config[FileKeys(config)[idx + 1]], n)
       IN  IF r.err # ""
           THEN /\ pc' = "error"
                /\ err' = r.err
                /\ UNCHANGED <<idx, n, grouped, file_list>>
           ELSE /\ idx' = idx + 1
                /\ n' = r.n
                /\ grouped' = Append(grouped, r.grouped)
                /\ file_list' = Append(file_list, r.val)
                /\ UNCHANGED <<pc, err>>
    /\ UNCHANGED <<callVars, config, dictOrder, files, groups, result, item_list, expanded>>

\* lines 282-300: after the loop, the top-level keys are added to the files
\* and the groupings are fixed
FixGroupingsStep ==
    /\ pc = "parse"
    /\ idx = Len(FileKeys(config))
    /\ LET a == TopLevelKwargs(config, file_list)
           r == FixGroupings(a.v)
       IN  IF a.err # ""
           THEN /\ pc' = "error"
                /\ err' = a.err
                /\ UNCHANGED <<file_list, files, groups>>
           ELSE IF r.err # ""
           THEN /\ pc' = "error"
                /\ err' = r.err
                /\ file_list' = a.v
                /\ UNCHANGED <<files, groups>>
           ELSE /\ pc' = "done"
                /\ file_list' = a.v
                /\ files' = r.files
                /\ groups' = r.groups
                /\ UNCHANGED err
    /\ UNCHANGED <<callVars, config, dictOrder, idx, n, grouped, result, item_list, expanded>>

Next == ParseFile \/ FixGroupingsStep

Spec == Init /\ [][Next]_vars

-----------------------------------------------------------------------------
(* Vocabulary of the properties *)

NumSources == Len(FileKeys(config))
Source(s) == config[FileKeys(config)[s]]

\* parseFiles returned / the loop over the sources is over, whatever came next
Done == pc = "done"
Failed == pc = "error"
FixRan == pc # "parse" /\ idx = NumSources

Range(q) == {q[i] : i \in 1..Len(q)}

RECURSIVE Concat(_)
Concat(qq) == IF qq = <<>> THEN <<>> ELSE Head(qq) \o Concat(Tail(qq))

\* the group names tagged on a descriptor
TagSet(d) ==
    IF "group" \notin DOMAIN d THEN {}
    ELSE CASE d["group"].k = "str" -> {d["group"].s}
           [] d["group"].k = "list" ->
                 {t.s : t \in {u \in Range(d["group"].l) : u.k = "str"}}
           [] OTHER -> {}

\* the names _group can make in a run of the model
SynthNames == {GroupName(j) : j \in 0..(2 * MaxSources * MaxLen)}

\* a synthesized group name
IsSynth(nm) == nm \in SynthNames

\* what a descriptor says apart from its classification and its group
Core(d) == [x \in (DOMAIN d) \ (FormatKeySet \cup {"group"}) |-> d[x]]

\* the descriptors one normalized item stands for: one per name, or the one
\* set of files of a multiepoch item
Entries(l) ==
    IF l["epoch"] = Str("multiepoch") THEN <<l>>
    ELSE [j \in 1..Len(flatten(l["name"])) |-> Put(l, "name", flatten(l["name"])[j])]

\* the descriptors of format f and object type o of a normalized list that
\* take part in automatic grouping, in list order
Participants(list, f, o) ==
    Concat([i \in 1..Len(list) |->
              IF /\ ItemFormat(list[i]) = f
                 /\ list[i]["object_type"] = Str(o)
                 /\ ("group" \notin DOMAIN list[i] \/ list[i]["group"] = PyTrue)
              THEN Entries(list[i]) ELSE <<>>])

\* the normalized list of source s, empty when normalization raised
NormalList(s) == IF Normalized(Source(s)).err = "" THEN Normalized(Source(s)).v ELSE <<>>

\* the formats of the items of a normalized list
FormatsOf(list) == {ItemFormat(list[i]) : i \in 1..Len(list)}

\* the object types of format f taking part in grouping in a normalized list
GroupingTypes(list, f) == {o \in object_types : Participants(list, f, o) # <<>>}

\* the number of participating descriptors per object type, as a set
GroupingLengths(list, f) ==
    {Len(Participants(list, f, o)) : o \in GroupingTypes(list, f)}

\* at least two object types take part, each with the same number of descriptors
CountsMatch(list, f) ==
    Cardinality(GroupingTypes(list, f)) >= 2 /\ Cardinality(GroupingLengths(list, f)) = 1

\* at least two object types take part, not all with the same number
CountsDiffer(list, f) ==
    Cardinality(GroupingTypes(list, f)) >= 2 /\ Cardinality(GroupingLengths(list, f)) > 1

\* the i-th positional tuple of format f
PositionTuple(list, f, i) ==
    [o \in GroupingTypes(list, f) |-> Core(Participants(list, f, o)[i])]

PositionTuples(list, f) ==
    {PositionTuple(list, f, i) : i \in 1..(CHOOSE k \in GroupingLengths(list, f) : TRUE)}

\* the groups of the group table that have an entry for format f
GroupsOf(f) == {g \in DOMAIN groups : f \in DOMAIN groups[g]}

\* the descriptors group g selects under format f
GroupTuple(g, f) ==
    [o \in DOMAIN groups[g][f] |-> Core(files[f][o][groups[g][f][o] + 1])]

-----------------------------------------------------------------------------
(* C1: positional pairing *)

\* C1 (as stated): with one source, a format whose grouping object types all
\* have k descriptors gets exactly k groups, the i-th pairing the i-th
\* descriptors.
C1_Original ==
    (Done /\ NumSources = 1) =>
        LET list == NormalList(1) IN
        \A f \in FormatsOf(list) :
            CountsMatch(list, f) =>
                /\ Cardinality(GroupsOf(f)) = CHOOSE k \in GroupingLengths(list, f) : TRUE
                /\ {GroupTuple(g, f) : g \in GroupsOf(f)} = PositionTuples(list, f)

\* C1 (amended): with one source, a format whose grouping object types all
\* have k descriptors gets one group per distinct positional tuple (k groups
\* when the k tuples differ pairwise); every group pairs the descriptors of
\* one position, and every position is paired by a group.
C1_PositionalPairing ==
    (Done /\ NumSources = 1) =>
        LET list == NormalList(1) IN
        \A f \in FormatsOf(list) :
            CountsMatch(list, f) =>
                /\ Cardinality(GroupsOf(f)) = Cardinality(PositionTuples(list, f))
                /\ {GroupTuple(g, f) : g \in GroupsOf(f)} = PositionTuples(list, f)

\* two positions with different tuples of three object types were grouped
C1_Witness ==
    /\ Done /\ NumSources = 1
    /\ LET list == NormalList(1) IN
       \E f \in FormatsOf(list) :
          /\ CountsMatch(list, f)
          /\ Cardinality(PositionTuples(list, f)) = 2
          /\ Cardinality(GroupingTypes(list, f)) = 3
          /\ Cardinality(GroupsOf(f)) = 2

-----------------------------------------------------------------------------
(* C2: unequal lengths *)

\* C2 for source s, of normalized list `list`
C2_Source(s, list) ==
    \A f \in FormatsOf(list) :
        CountsDiffer(list, f) =>
            /\ s <= Len(grouped) =>
                  \A i \in 1..Len(grouped[s]) :
                      ItemFormat(grouped[s][i]) = f =>
                          \A nm \in TagSet(grouped[s][i]) : ~IsSynth(nm)
            /\ NumSources = 1 => ~Failed
            /\ Done =>
                  /\ \A g \in GroupsOf(f) :
                        \A i \in 1..Len(grouped[s]) : g \notin TagSet(grouped[s][i])
                  /\ \A o \in DOMAIN files[f] : \A p \in 1..Len(files[f][o]) :
                        "group" \in DOMAIN files[f][o][p] =>
                            files[f][o][p]["group"].k # "bool"

\* C2: when the grouping object types of a format in a source have lists of
\* unequal length, no descriptor of that format in the source gets a
\* synthesized name, no group tagged in the source maps the format, and,
\* the source being the only one, construction ends without error and no
\* descriptor of the format in the file table carries a boolean group.
C2_NoGroupingOnMismatch == \A s \in 1..NumSources : C2_Source(s, NormalList(s))

\* three object types, two of them with lists of one length
C2_Witness ==
    /\ Done
    /\ LET list == NormalList(1) IN
       \E f \in FormatsOf(list) :
          /\ CountsDiffer(list, f)
          /\ Cardinality(GroupingTypes(list, f)) = 3
          /\ Cardinality(GroupingLengths(list, f)) = 2
          /\ f \in DOMAIN files

-----------------------------------------------------------------------------
(* C3: group names are fresh *)

\* the position of item i of a grouped list among the tagged items of its
\* format and object type
TaggedPosition(G, i) ==
    Cardinality({j \in 1..i :
        /\ ItemFormat(G[j]) = ItemFormat(G[i])
        /\ G[j]["object_type"] = G[i]["object_type"]
        /\ \E nm \in TagSet(G[j]) : IsSynth(nm)})

C3_NamesUnique ==
    \A s1, s2 \in 1..Len(grouped) :
        \A i1 \in 1..Len(grouped[s1]) : \A i2 \in 1..Len(grouped[s2]) :
            \A nm \in TagSet(grouped[s1][i1]) \cap TagSet(grouped[s2][i2]) :
                IsSynth(nm) =>
                    /\ s1 = s2
                    /\ ItemFormat(grouped[s1][i1]) = ItemFormat(grouped[s2][i2])
                    /\ TaggedPosition(grouped[s1], i1) = TaggedPosition(grouped[s2], i2)

\* C3: the group counter never decreases, and no two positional tuples
\* (different source, format or position) share a synthesized group name.
C3_FreshGroupNames == [](C3_NamesUnique) /\ [][n' >= n]_vars

\* two sources and two formats have minted names
C3_Witness ==
    /\ Len(grouped) = 2
    /\ n = 2
    /\ \E i \in 1..Len(grouped[1]) : GroupName(0) \in TagSet(grouped[1][i])
    /\ \E i \in 1..Len(grouped[2]) : GroupName(1) \in TagSet(grouped[2][i])

-----------------------------------------------------------------------------
(* C4: fusion of duplicate descriptors *)

\* a descriptor without its group
Body(d) == [x \in (DOMAIN d) \ {"group"} |-> d[x]]

\* the file table after merging the sources, before duplicate fusion; read
\* only once every source is parsed
MergedTable == MergeAll(file_list, 2, file_list[1])

\* C4 for one list L of the merged table and what lines 677-703 make of it
C4_List(L, R) ==
    LET firsts == {p \in 1..Len(L) : \A q \in 1..(p - 1) : Body(L[q]) # Body(L[p])}
    IN  /\ Len(R) = Cardinality(firsts)
        /\ \A p \in firsts :
              LET r == R[Cardinality({q \in firsts : q <= p})]
                  same == {q \in 1..Len(L) : Body(L[q]) = Body(L[p])}
              IN  /\ Body(r) = Body(L[p])
                  /\ TagSet(r) = UNION {TagSet(L[q]) : q \in same}
                  /\ Cardinality(same) > 1 =>
                        /\ "group" \in DOMAIN r
                        /\ r["group"].k = "list"
                        /\ Len(r["group"].l) = Cardinality(TagSet(r))

\* C4: in every list of the merged table, descriptors equal on every key
\* but 'group' are fused: one descriptor per distinct body is left, at the
\* place of the first, and its group tags are the set union of the names of
\* all of them, each name once.
C4_FusionIsUnion ==
    (pc = "parse" /\ idx = NumSources) =>
        \A f \in DOMAIN MergedTable : \A o \in DOMAIN MergedTable[f] :
            C4_List(MergedTable[f][o], FixList(MergedTable[f][o]))

-----------------------------------------------------------------------------
(* C5: groups with one mapping collapse to one name *)

\* the file table after merging and duplicate fusion
PreTable == FixAll(MergedTable)

\* the group table before names with one mapping are collapsed
PreGroups == ReverseGroups(PreTable).map

\* every descriptor of the file table
Descriptors(T) ==
    UNION {UNION {Range(T[f][o]) : o \in DOMAIN T[f]} : f \in DOMAIN T}

\* C5: after construction no two names of the group table have the same
\* mapping; of the names that had one mapping before the collapse exactly
\* one is left, with that mapping; and every name tagged on a descriptor of
\* the file table is a name of the group table.
C5_AliasesCollapse ==
    Done =>
        /\ \A g1, g2 \in DOMAIN groups : groups[g1] = groups[g2] => g1 = g2
        /\ DOMAIN groups \subseteq DOMAIN PreGroups
        /\ \A g \in DOMAIN PreGroups :
              Cardinality({h \in DOMAIN groups : groups[h] = PreGroups[g]}) = 1
        /\ \A d \in Descriptors(files) : TagSet(d) \subseteq DOMAIN groups

\* a name was discarded that had been tagged on descriptors
C5_Witness ==
    /\ Done
    /\ \E g \in (DOMAIN PreGroups) \ (DOMAIN groups) :
          \E d \in Descriptors(PreTable) : g \in TagSet(d)

-----------------------------------------------------------------------------
(* C6: shape of a group *)

\* the places (from 1) of the descriptors of files[f][o] tagged g
Tagged(T, g, f, o) == {p \in 1..Len(T[f][o]) : g \in TagSet(T[f][o][p])}

\* C6: after a successful construction every group has exactly one format,
\* and for every object type of that format exactly one descriptor is tagged
\* with the group, the one at the index the group table gives; no other
\* descriptor is tagged with the group.
C6_GroupShape ==
    Done =>
        \A g \in DOMAIN groups :
            /\ Cardinality(DOMAIN groups[g]) = 1
            /\ \A f \in DOMAIN files : \A o \in DOMAIN files[f] :
                  Tagged(files, g, f, o) =
                      IF f \in DOMAIN groups[g] /\ o \in DOMAIN groups[g][f]
                      THEN {groups[g][f][o] + 1} ELSE {}

\* a group the configuration named, over three object types
C6_Witness ==
    /\ Done
    /\ "g1" \in DOMAIN groups
    /\ \E f \in DOMAIN groups["g1"] : Cardinality(DOMAIN groups["g1"][f]) = 3

-----------------------------------------------------------------------------
(* C7: group conflicts *)

\* the places <<f, o, p>> of the descriptors of T tagged g
Places(T, g) ==
    UNION {UNION {{<<f, o, p>> : p \in Tagged(T, g, f, o)} : o \in DOMAIN T[f]}
           : f \in DOMAIN T}

TwoFormats(T, g) == \E x, y \in Places(T, g) : x[1] # y[1]
SameTypeTwice(T, g) == \E x, y \in Places(T, g) : x[1] = y[1] /\ x[2] = y[2] /\ x[3] # y[3]

AllTags(T) == UNION {TagSet(d) : d \in Descriptors(T)}

\* C7: when, after merging and duplicate fusion, a group name is tagged on
\* descriptors of two formats or on two descriptors of one format and
\* object type, _fixGroupings raises, parseFiles ends in error, and neither
\* the file table nor the group table is bound.
C7_ConflictAborts ==
    (idx = NumSources /\ \E g \in AllTags(PreTable) :
                            TwoFormats(PreTable, g) \/ SameTypeTwice(PreTable, g)) =>
        /\ pc = "parse" => FixGroupings(file_list).err # ""
        /\ pc # "done"
        /\ files = Empty
        /\ groups = Empty

\* construction failed on a name tagged under two formats
C7_Witness ==
    /\ Failed /\ idx = NumSources
    /\ TwoFormats(PreTable, "g1")
    /\ ~SameTypeTwice(PreTable, "g1")

-----------------------------------------------------------------------------
(* C8: classification of the stored descriptors *)

\* C8 (as stated): every descriptor of the file table binds the four format
\* keys itself, and they name the list it is in.
C8_Original ==
    Done =>
        \A f \in DOMAIN files : \A o \in DOMAIN files[f] : \A p \in 1..Len(files[f][o]) :
            LET d == files[f][o][p] IN
            /\ FormatKeySet \subseteq DOMAIN d
            /\ ItemFormat(d) = f
            /\ d["object_type"] = Str(o)

\* a descriptor with the top-level fields, flag_field and file_reader of the
\* configuration added as parseFiles adds them (lines 284-297)
WithTopLevel(d, f, o) ==
    TopLevelKwargs(config, <<[x \in {f} |-> [y \in {o} |-> <<d>>]]>> \o file_list).v[1][f][o][1]

\* the descriptors of the leaf items of a normalized list, each with the
\* format string and the object type its four format values give
LeafPlaces(list) ==
    UNION {{<<ItemFormat(list[i]), list[i]["object_type"].s,
              WithTopLevel(Core(e), ItemFormat(list[i]), list[i]["object_type"].s)>> :
                e \in Range(Entries(list[i]))} : i \in 1..Len(list)}

\* C8 (amended): no descriptor of the file table holds any of the four
\* format keys; its classification is the pair of keys it is filed under,
\* and it is the descriptor of a leaf item whose four format values give
\* exactly that pair.
C8_ClassifiedByTableKeys ==
    Done =>
        LET leaves == UNION {LeafPlaces(NormalList(s)) : s \in 1..NumSources} IN
        \A f \in DOMAIN files : \A o \in DOMAIN files[f] : \A p \in 1..Len(files[f][o]) :
            /\ (DOMAIN files[f][o][p]) \cap FormatKeySet = {}
            /\ <<f, o, Core(files[f][o][p])>> \in leaves

\* a table of two formats with a grouped descriptor
C8_Witness ==
    /\ Done
    /\ Cardinality(DOMAIN files) = 2
    /\ \E d \in Descriptors(files) : TagSet(d) # {}

-----------------------------------------------------------------------------
(* C9, C10: the leaves of a configuration tree and their context *)

ControlKeys == {"group", "wildcard", "fields", "flag_field", "file_reader"}

\* the classification axis a mapping key binds, as a set of format keys
AxisOf(key) == {format_keys[a] : a \in {b \in 1..4 : key \in default_vals[b]}}

\* the format keys a descriptor mapping binds itself
OwnAxes(d) == (DOMAIN d) \cap FormatKeySet

RECURSIVE HasIncompleteLeaf(_, _)
\* some leaf under node lacks a format key both in itself and in the
\* context `bound` it inherits
HasIncompleteLeaf(node, bound) ==
    CASE node.k = "list" ->
            \E i \in 1..Len(node.l) :
                IF node.l[i].k = "dict"
                THEN bound \cup OwnAxes(node.l[i].d) # FormatKeySet
                ELSE bound # FormatKeySet
      [] node.k = "dict" ->
            IF "name" \in DOMAIN node.d
            THEN bound \cup OwnAxes(node.d) # FormatKeySet
            ELSE \E key \in (DOMAIN node.d) \ ControlKeys :
                    HasIncompleteLeaf(node.d[key], bound \cup AxisOf(key))
      [] OTHER -> bound # FormatKeySet

RECURSIVE Respecified(_, _)
\* an axis of the context `bound` is given again under node
Respecified(node, bound) ==
    CASE node.k = "list" ->
            \E i \in 1..Len(node.l) :
                node.l[i].k = "dict" /\ bound \cap OwnAxes(node.l[i].d) # {}
      [] node.k = "dict" ->
            IF "name" \in DOMAIN node.d
            THEN bound \cap OwnAxes(node.d) # {}
            ELSE \E key \in (DOMAIN node.d) \ ControlKeys :
                    \/ bound \cap AxisOf(key) # {}
                    \/ Respecified(node.d[key], bound \cup AxisOf(key))
      [] OTHER -> FALSE

\* C9: when a leaf of source s lacks a format key in itself and its context,
\* _parseFileHelper raises on source s, parseFiles never gets past it and
\* never returns, and neither table is bound, whatever the other sources.
C9_IncompleteLeafAborts ==
    \A s \in 1..NumSources :
        HasIncompleteLeaf(Source(s), {}) =>
            /\ idx < s
            /\ (pc = "parse" /\ idx = s - 1) => ParseFileHelper(Source(s), n).err # ""
            /\ pc # "done"
            /\ files = Empty
            /\ groups = Empty

\* construction failed on the second source after a well-formed first one
C9_Witness ==
    /\ Failed
    /\ NumSources = 2 /\ idx = 1
    /\ ~HasIncompleteLeaf(Source(1), {})
    /\ HasIncompleteLeaf(Source(2), {})

\* C10: when an axis already bound in the context is given again under a
\* source whose leaves are otherwise complete, _parseFileHelper raises the
\* duplicate-definition ValueError.
C10_RespecifiedIsDuplicateError ==
    \A s \in 1..NumSources :
        (/\ pc = "parse" /\ idx = s - 1
         /\ Respecified(Source(s), {})
         /\ ~HasIncompleteLeaf(Source(s), {})) =>
            ParseFileHelper(Source(s), n).err = "ValueError: Duplicate definition of format"

-----------------------------------------------------------------------------
(* C11: inheritance of the control keys *)

InheritedKeys == {"group", "wildcard", "fields", "file_reader"}

\* the control keys of InheritedKeys a mapping sets itself
OwnControls(d) == [x \in (DOMAIN d) \cap InheritedKeys |-> d[x]]

RECURSIVE ExpectedControls(_, _)
\* the leaves under node as pairs <<name, controls>>: controls holds, for
\* each key of InheritedKeys, the value of the nearest level that sets it
ExpectedControls(node, inh) ==
    CASE node.k = "list" ->
            {IF node.l[i].k = "dict"
             THEN <<node.l[i].d["name"], Update(inh, OwnControls(node.l[i].d))>>
             ELSE <<node.l[i], inh>> : i \in 1..Len(node.l)}
      [] node.k = "dict" ->
            IF "name" \in DOMAIN node.d
            THEN {<<node.d["name"], Update(inh, OwnControls(node.d))>>}
            ELSE UNION {ExpectedControls(node.d[key], Update(inh, OwnControls(node.d))) :
                           key \in (DOMAIN node.d) \ ControlKeys}
      [] OTHER -> {<<node, inh>>}

\* a mapping above the leaves of node sets a key of keys
SetsAtMapping(node, keys) ==
    /\ node.k = "dict" /\ "name" \notin DOMAIN node.d
    /\ \/ (DOMAIN node.d) \cap keys # {}
       \/ \E key \in (DOMAIN node.d) \ ControlKeys :
             LET c == node.d[key] IN
             /\ c.k = "dict" /\ "name" \notin DOMAIN c.d
             /\ \/ (DOMAIN c.d) \cap keys # {}
                \/ \E k2 \in (DOMAIN c.d) \ ControlKeys :
                      LET c2 == c.d[k2] IN
                      c2.k = "dict" /\ "name" \notin DOMAIN c2.d /\ (DOMAIN c2.d) \cap keys # {}

\* the descriptors _recurseDict makes of source s carry, for every key of
\* keys, the value of the nearest enclosing level that sets it
CarriesNearest(s, keys) ==
    LET r == SourceList(Source(s))
    IN  /\ r.err = ""
        /\ r.v.k = "list"
        /\ \A i \in 1..Len(r.v.l) : r.v.l[i].k = "dict"
        /\ \A e \in ExpectedControls(Source(s), Empty) :
              \E i \in 1..Len(r.v.l) :
                  /\ r.v.l[i].d["name"] = e[1]
                  /\ \A K \in (DOMAIN e[2]) \cap keys :
                        K \in DOMAIN r.v.l[i].d /\ r.v.l[i].d[K] = e[2][K]

\* C11: when a mapping level of a complete source tree sets group, wildcard,
\* fields or file_reader, every descriptor _recurseDict makes from its
\* descendants carries the value of the nearest enclosing level that sets
\* the key.
C11_ControlKeysInherited ==
    \A s \in 1..NumSources :
        (/\ pc = "parse" /\ idx = s - 1
         /\ SetsAtMapping(Source(s), InheritedKeys)
         /\ ~HasIncompleteLeaf(Source(s), {})
         /\ ~Respecified(Source(s), {})) =>
            CarriesNearest(s, InheritedKeys)

-----------------------------------------------------------------------------
(* C12: flag_field composes *)

RECURSIVE Flags(_)
\* the flag conditions of a flag_field value: a name, or a nest of lists
Flags(v) ==
    IF v.k = "list" THEN UNION {Flags(v.l[i]) : i \in 1..Len(v.l)} ELSE {v}

\* the flag conditions of a mapping or descriptor
FlagsOf(d) == IF "flag_field" \in DOMAIN d THEN Flags(d["flag_field"]) ELSE {}

RECURSIVE ExpectedFlags(_, _)
\* the leaves under node as pairs <<name, flags>>: flags are the conditions
\* set on the enclosing levels and on the leaf itself
ExpectedFlags(node, inh) ==
    CASE node.k = "list" ->
            {IF node.l[i].k = "dict"
             THEN <<node.l[i].d["name"], inh \cup FlagsOf(node.l[i].d)>>
             ELSE <<node.l[i], inh>> : i \in 1..Len(node.l)}
      [] node.k = "dict" ->
            IF "name" \in DOMAIN node.d
            THEN {<<node.d["name"], inh \cup FlagsOf(node.d)>>}
            ELSE UNION {ExpectedFlags(node.d[key], inh \cup FlagsOf(node.d)) :
                           key \in (DOMAIN node.d) \ ControlKeys}
      [] OTHER -> {<<node, inh>>}

\* C12: a top-level flag_field is added to every descriptor, also to one
\* with no flag_field of its own, and after construction the flag_field of
\* every descriptor of the file table holds the conditions of all enclosing
\* levels, of the top level and of the descriptor itself.
C12_FlagFieldComposes ==
    /\ (pc = "parse" /\ idx = NumSources /\ "flag_field" \in DOMAIN config) =>
          TopLevelKwargs(config, file_list).err = ""
    /\ Done =>
          \A s \in 1..NumSources : \A e \in ExpectedFlags(Source(s), {}) :
              \A d \in Descriptors(files) :
                  d["name"] = e[1] => e[2] \cup FlagsOf(config) \subseteq FlagsOf(d)

-----------------------------------------------------------------------------
(* C13: a flat list of names under multiepoch *)

\* the complete multiepoch trees whose leaf is a flat list of names
FlatMultiepochTrees ==
    {Chain(q, leaf) :
        q \in {p \in ChainSeqs : Range(p) = {"multiepoch", "CCD", "catalog", "star"}},
        leaf \in {List(<<Str("a")>>), List(<<Str("a"), Str("b")>>)}}

\* the leaf of a chain of single-key mappings
RECURSIVE ChainLeaf(_)
ChainLeaf(node) ==
    IF node.k = "dict" /\ "name" \notin DOMAIN node.d
    THEN ChainLeaf(node.d[CHOOSE key \in DOMAIN node.d : TRUE])
    ELSE node

\* C13: a leaf list of plain names in a multiepoch context is parsed
\* without raising and gives exactly one descriptor, whose name is the
\* whole list.
C13_FlatMultiepochList ==
    \A s \in 1..NumSources :
        (pc = "parse" /\ idx = s - 1 /\ Source(s) \in FlatMultiepochTrees) =>
            LET r == ParseFileHelper(Source(s), n)
            IN  /\ r.err = ""
                /\ Cardinality(Descriptors(r.val)) = 1
                /\ \A d \in Descriptors(r.val) : d["name"] = ChainLeaf(Source(s))

-----------------------------------------------------------------------------
(* C14: a scalar pattern matching three files *)

\* the wildcard trees whose leaf names the one pattern "exp_*"
ScalarPatternTrees ==
    {t \in WildcardTrees : ChainLeaf(t.d[CHOOSE key \in (DOMAIN t.d) \ {"wildcard"} : TRUE])
                             \in {Dict(Put(Empty, "name", Str("exp_*"))),
                                  List(<<Dict(Put(Empty, "name", Str("exp_*")))>>)}}

\* the one list of descriptors of a file table with one format and one type
OnlyList(T) ==
    LET f == CHOOSE x \in DOMAIN T : TRUE
        o == CHOOSE x \in DOMAIN T[f] : TRUE
    IN  T[f][o]

\* C14: with wildcard expansion and a pattern matching three files, a
\* multiepoch source ends with one descriptor in the file table, named by the
\* sorted list of the three matches; any other source ends with three
\* descriptors, one per match, each with a scalar name.
C14_ScalarPattern ==
    (pc # "parse" /\ NumSources = 1 /\ Source(1) \in ScalarPatternTrees) =>
        /\ Done
        /\ Cardinality(DOMAIN files) = 1
        /\ \A f \in DOMAIN files : DOMAIN files[f] = {"star"}
        /\ LET fl == OnlyList(files)
           IN  IF "multiepoch" \in DOMAIN Source(1).d
               THEN /\ Len(fl) = 1
                    /\ fl[1]["name"] = List(Matches("exp_*"))
               ELSE /\ Len(fl) = 3
                    /\ {fl[j]["name"] : j \in 1..3} = Range(Matches("exp_*"))

\* a multiepoch pattern has been expanded where glob lists the directory in
\* descending order
C14_Witness ==
    /\ Done /\ NumSources = 1 /\ Source(1) \in ScalarPatternTrees
    /\ "multiepoch" \in DOMAIN Source(1).d
    /\ dictOrder = "desc"
    /\ Len(OnlyList(files)) = 1

\* three descriptors have come out of one pattern
C14_WitnessSplit ==
    /\ Done /\ NumSources = 1 /\ Source(1) \in ScalarPatternTrees
    /\ "single" \in DOMAIN Source(1).d
    /\ Len(OnlyList(files)) = 3

-----------------------------------------------------------------------------
(* C15: a list of patterns under multiepoch *)

\* the name a wildcard tree gives its one leaf
PatternOf(t) ==
    LET leaf == ChainLeaf(t.d[CHOOSE key \in (DOMAIN t.d) \ {"wildcard"} : TRUE])
    IN  IF leaf.k = "list" THEN leaf.l[1].d["name"] ELSE leaf.d["name"]

\* the multiepoch wildcard trees whose leaf names a list of patterns
PatternListTrees ==
    {t \in WildcardTrees : "multiepoch" \in DOMAIN t.d /\ PatternOf(t).k = "list"}

\* C15: with wildcard expansion under multiepoch, a name that is a list of
\* m patterns ends as m descriptors in the file table, the j-th named by the
\* list of files the j-th pattern matches.
C15_OnePerPattern ==
    (pc # "parse" /\ NumSources = 1 /\ Source(1) \in PatternListTrees) =>
        /\ Done
        /\ LET fl == OnlyList(files)
               pats == PatternOf(Source(1)).l
           IN  /\ Len(fl) = Len(pats)
               /\ \A j \in 1..Len(pats) : fl[j]["name"] = List(Matches(pats[j].s))

-----------------------------------------------------------------------------
(* makeBins, _expandBins *)

\* a number of a bin definition
Num(i) == [k |-> "int", i |-> i]

\* line 161: expected_bin_keys
expected_bin_keys ==
    [List |-> {"name", "field", "endpoints"},
     Step |-> {"name", "field", "low", "high", "step", "n_bins", "use_log"}]

\* BinList(field, endpoints) and BinStep(field, n_bins = ...): the field and
\* the number of single bins
BinObject(bin_def) ==
    [field |-> bin_def["field"],
     n_bins |-> IF bin_def["name"] = Str("List") THEN Len(bin_def["endpoints"].l) - 1
                ELSE bin_def["n_bins"].i]

\* calling a Bin* object: its single bins, in order
SingleBins(b) == [j \in 1..b.n_bins |-> [k |-> "bin", field |-> b.field, i |-> j]]

RECURSIVE MakeBinsLoop(_, _, _)
\* lines 1025-1050
MakeBinsLoop(bins, i, bin_list) ==
    IF i > Len(bins) THEN Ok(bin_list)
    ELSE LET bin_def == bins[i].d
         IN  IF "name" \notin DOMAIN bin_def
             THEN Raise("ValueError: Bins are defined by a name argument - not found")
             ELSE IF bin_def["name"] \notin {Str("List"), Str("Step")}
             THEN Raise("ValueError: Do not understand bin type name")
             ELSE IF "field" \notin DOMAIN bin_def
             THEN Raise("ValueError: Must define a field for the bin to operate on")
             ELSE IF (DOMAIN bin_def) \ expected_bin_keys[bin_def["name"].s] # {}
             THEN Raise("ValueError: Got unexpected key or keys")
             ELSE IF bin_def["name"] = Str("List") /\ "endpoints" \notin DOMAIN bin_def
             THEN Raise("ValueError: Must define endpoints for BinList-type binning scheme")
             ELSE MakeBinsLoop(bins, i + 1, Append(bin_list, BinObject(bin_def)))

\* makeBins(bins)
MakeBins(bins) ==
    MakeBinsLoop(IF bins.k = "dict" THEN <<bins>> ELSE bins.l, 1, <<>>)

RECURSIVE Matrix(_, _)
\* lines 1068-1073: the lists that take one element of each list of
\* new_list, the first list changing most slowly
Matrix(new_list, new_items) ==
    IF new_list = <<>> THEN new_items
    ELSE LET this_list == new_list[Len(new_list)]
         IN  Matrix(SubSeq(new_list, 1, Len(new_list) - 1),
                    Concat([f \in 1..Len(this_list) |->
                              [m \in 1..Len(new_items) |-> <<this_list[f]>> \o new_items[m]]]))

\* ExpandBinList(bin_list): the leaf bin combinations, the first Bin* object
\* changing most slowly
ExpandBinList(bin_list) ==
    IF bin_list = <<>> THEN <<>>
    ELSE LET m == Matrix([i \in 1..Len(bin_list) |-> SingleBins(bin_list[i])], <<<<>>>>)
         IN  [j \in 1..Len(m) |-> List(m[j])]

\* the variant that sets bin_list on the item itself, without item.copy()
CopyPerBin_InPlace(item, bins) ==
    IF bins = <<>> THEN [out |-> <<>>, now |-> Dict(item)]
    ELSE LET last == Dict(Put(item, "bin_list", bins[Len(bins)]))
         IN  [out |-> [j \in 1..Len(bins) |-> last], now |-> last]

\* lines 1082-1085: one copy of item per leaf bin combination, the
\* combination put in the copy; now is item after the statements
CopyPerBin(item, bins) ==
    [out |-> [j \in 1..Len(bins) |-> Dict(Put(item, "bin_list", bins[j]))],
     now |-> Dict(item)]

\* the variant that takes no item as expanded already
HasBinList_Never(item) == FALSE

\* line 1080: the item has its leaf bin combination already
HasBinList(item) == "bin_list" \in DOMAIN item

RECURSIVE ExpandBins(_)
RECURSIVE ExpandBinsLoop(_, _, _, _)
RECURSIVE ExpandSubitems(_, _, _, _)

\* lines 1063-1067: _expandBins of each subitem of a list item
ExpandSubitems(item, i, new_list, now) ==
    IF i > Len(item) THEN [err |-> "", out |-> new_list, now |-> List(now)]
    ELSE LET r == ExpandBins(item[i])
         IN  IF r.err # "" THEN [err |-> r.err, out |-> <<>>, now |-> List(item)]
             ELSE ExpandSubitems(item, i + 1, Append(new_list, r.out), Append(now, r.now))

\* lines 1059-1087: the loop over item_list
ExpandBinsLoop(items, i, return_list, now) ==
    IF i > Len(items) THEN [err |-> "", out |-> return_list, now |-> List(now)]
    ELSE LET item == items[i]
         IN  IF item.k = "list"
             THEN LET sub == ExpandSubitems(item.l, 1, <<>>, <<>>)
                      new_items == Matrix(sub.out, <<<<>>>>)
                  IN  IF sub.err # "" THEN [err |-> sub.err, out |-> <<>>, now |-> List(items)]
                      ELSE ExpandBinsLoop(items, i + 1,
                               return_list \o [j \in 1..Len(new_items) |-> List(new_items[j])],
                               Append(now, sub.now))
             ELSE IF "bins" \notin DOMAIN item.d
             THEN ExpandBinsLoop(items, i + 1, Append(return_list, item), Append(now, item))
             ELSE IF ~HasBinList(item.d)
             THEN LET made == MakeBins(item.d["bins"])
                      c == CopyPerBin(item.d, ExpandBinList(made.v))
                  IN  IF made.err # "" THEN [err |-> made.err, out |-> <<>>, now |-> List(items)]
                      ELSE ExpandBinsLoop(items, i + 1, return_list \o c.out, Append(now, c.now))
             ELSE ExpandBinsLoop(items, i + 1, Append(return_list, item), Append(now, item))

\* _expandBins(item_list): err, the returned list, and the given item_list as the
\* call leaves it
ExpandBins(given) ==
    IF given.k = "dict"
    THEN LET r == ExpandBinsLoop(<<given>>, 1, <<>>, <<>>)
         IN  [err |-> r.err, out |-> r.out,
              now |-> IF r.err = "" THEN r.now.l[1] ELSE given]
    ELSE ExpandBinsLoop(given.l, 1, <<>>, <<>>)

-----------------------------------------------------------------------------
(* _expandBins applied to lists of descriptors *)

MaxItems == 2   \* the most items of an item_list
MaxTuple == 2   \* the most descriptors of one list item

\* {'name': 'List', 'field': f, 'endpoints': [1, .., k + 1]}
ListAxis(f, k) ==
    Dict([name |-> Str("List"), field |-> Str(f),
          endpoints |-> List([i \in 1..(k + 1) |-> Num(i)])])

\* {'name': 'Step', 'field': f, 'low': 0, 'high': k, 'n_bins': k}
StepAxis(f, k) ==
    Dict([name |-> Str("Step"), field |-> Str(f), low |-> Num(0), high |-> Num(k),
          n_bins |-> Num(k)])

OneAxis == ListAxis("ra", 2)
TwoAxes == List(<<ListAxis("ra", 2), StepAxis("dec", 3)>>)

\* a leaf bin combination of OneAxis
DoneBin == List(<<[k |-> "bin", field |-> Str("ra"), i |-> 1]>>)

Plain == [name |-> Str("a")]
Binned == [name |-> Str("b"), bins |-> OneAxis]
Binned2 == [name |-> Str("c"), bins |-> TwoAxes, fields |-> List(<<Str("x")>>)]
AlreadyExpanded == [name |-> Str("b"), bins |-> OneAxis, bin_list |-> DoneBin]

\* descriptors as listData passes them
BinDescriptors ==
    {Dict(Plain), Dict(Binned), Dict(Binned2), Dict(AlreadyExpanded),
     Dict([name |-> Str("d"), bin_list |-> DoneBin]),
     Dict([name |-> Str("e"), bins |-> List(<<>>)]),
     Dict([name |-> Str("f"), bins |-> Dict([name |-> Str("List"), endpoints |-> List(<<Num(1)>>)])])}

\* the sets of descriptors listData puts together for one group
BinTuples ==
    {List(q) : q \in UNION {[1..k -> {Dict(Plain), Dict(Binned)}]
                              : k \in 1..MaxTuple}}

\* a descriptor, a list of descriptors, or a list of tuples of descriptors
BinInputs ==
    BinDescriptors
    \cup {List(q) : q \in UNION {[1..k -> BinDescriptors] : k \in 0..MaxItems}}
    \cup {List(q) : q \in UNION {[1..k -> BinTuples] : k \in 1..MaxItems}}

InitBins ==
    /\ item_list \in BinInputs
    /\ result = NoResult
    /\ expanded = <<>>
    /\ pc = "bins"
    /\ err = ""
    /\ config = Empty /\ dictOrder = "asc" /\ idx = 0 /\ n = 0
    /\ grouped = <<>> /\ file_list = <<>> /\ files = Empty /\ groups = Empty
    /\ NoCalls

\* _expandBins(item_list)
ExpandOnce ==
    /\ pc = "bins"
    /\ LET r == ExpandBins(item_list)
       IN  /\ result' = [op |-> "_expandBins", v |-> r.out]
           /\ item_list' = r.now
           /\ err' = r.err
           /\ pc' = IF r.err = "" THEN "expanded" ELSE "error"
    /\ UNCHANGED <<callVars, config, dictOrder, idx, n, grouped, file_list, files, groups, expanded>>

\* _expandBins of what _expandBins returned
ExpandAgain ==
    /\ pc = "expanded"
    /\ LET r == ExpandBins(List(result.v))
       IN  /\ expanded' = r.out
           /\ err' = r.err
    /\ pc' = "again"
    /\ UNCHANGED <<callVars, config, dictOrder, idx, n, grouped, file_list, files, groups, result,
                   item_list>>

NextBins == ExpandOnce \/ ExpandAgain

SpecBins == InitBins /\ [][NextBins]_vars

-----------------------------------------------------------------------------
(* C16: one copy per leaf bin combination *)

\* the descriptor an item_list consists of, when it is one descriptor
TheOne(v) == IF v.k = "dict" THEN v.d ELSE v.l[1].d

\* item_list is one descriptor, given alone or as the one element of a
\* list, with a valid bin specification and no bin_list
OneBinned(v) ==
    /\ v.k = "dict" \/ (v.k = "list" /\ Len(v.l) = 1 /\ v.l[1].k = "dict")
    /\ "bins" \in DOMAIN TheOne(v)
    /\ "bin_list" \notin DOMAIN TheOne(v)
    /\ MakeBins(TheOne(v)["bins"]).err = ""

\* the leaf bin combinations of a descriptor, in order
LeafBins(d) == ExpandBinList(MakeBins(d["bins"]).v)

\* C16: _expandBins of a descriptor with a bin specification and no bin_list
\* returns one descriptor per leaf bin combination, in the order of the
\* combinations; the j-th has every key of the original with the original's
\* value, and the j-th combination as bin_list; the original is as it was.
C16_OnePerLeafBin ==
    [][(pc = "bins" /\ OneBinned(item_list)) =>
          LET d == TheOne(item_list)
              bins == LeafBins(d)
          IN  /\ pc' = "expanded"
              /\ Len(result'.v) = Len(bins)
              /\ \A j \in 1..Len(bins) :
                    /\ result'.v[j].k = "dict"
                    /\ DOMAIN result'.v[j].d = (DOMAIN d) \cup {"bin_list"}
                    /\ \A key \in DOMAIN d : result'.v[j].d[key] = d[key]
                    /\ result'.v[j].d["bin_list"] = bins[j]
              /\ item_list' = item_list]_vars

\* a descriptor with two bin axes of 2 and 3 bins has become 6 descriptors
C16_Witness ==
    /\ pc = "expanded"
    /\ OneBinned(item_list)
    /\ TheOne(item_list) = Binned2
    /\ Len(result.v) = 6
    /\ result.v[2].d["bin_list"] =
          List(<<[k |-> "bin", field |-> Str("ra"), i |-> 1],
                 [k |-> "bin", field |-> Str("dec"), i |-> 2]>>)

-----------------------------------------------------------------------------
(* C17: idempotence *)

\* the descriptor is passed through: it has a bin_list or no bins
PassedThrough(v) == v.k = "dict" /\ ("bin_list" \in DOMAIN v.d \/ "bins" \notin DOMAIN v.d)

\* the lists of descriptors all of which are passed through
AllPassedThrough(v) ==
    v.k = "list" /\ \A i \in 1..Len(v.l) : PassedThrough(v.l[i])

\* C17: _expandBins of the result of _expandBins, for a list of descriptors
\* or of tuples of descriptors, raises nothing and returns the same list;
\* and a list of descriptors each of which has a bin_list or no bin
\* specification is returned as it is, each descriptor once.
C17_Idempotent ==
    /\ pc = "again" => (err = "" /\ expanded = result.v)
    /\ (pc \in {"expanded", "error"} /\ AllPassedThrough(item_list)) =>
          (pc = "expanded" /\ result.v = item_list.l)

\* a list of tuples with a binned descriptor has been expanded twice
C17_Witness ==
    /\ pc = "again"
    /\ item_list.k = "list" /\ Len(item_list.l) = 2
    /\ item_list.l[1] = List(<<Dict(Binned), Dict(Plain)>>)
    /\ Len(result.v) > Len(item_list.l)
    /\ expanded = result.v

\* a descriptor with a bin_list and one without bins have been passed through
C17_WitnessPassed ==
    /\ pc = "expanded"
    /\ item_list = List(<<Dict(AlreadyExpanded), Dict(Plain)>>)
    /\ result.v = item_list.l

-----------------------------------------------------------------------------
(* listFileTypes, listObjects, listData, queryFile *)

\* lines 930-939 for strings: the format as one string; no extent and no
\* data_format is ""
CheckAndCoerceFormat(epoch, extent, data_format) ==
    IF extent # "" \/ data_format # "" THEN FormatStr(epoch, extent, data_format)
    ELSE epoch

\* the group names of the model in the order sorted() gives them
GroupNameOrder == [j \in 1..10 |-> GroupName(j - 1)] \o <<"g1", "g2">>

\* the variant that stops at the first group found
GroupsList_First(gs, object_type, epoch) ==
    LET all == SelectSeq(GroupNameOrder,
                   LAMBDA group : /\ group \in DOMAIN gs
                                  /\ epoch \in DOMAIN gs[group]
                                  /\ \A j \in 1..Len(object_type) :
                                        object_type[j].s \in DOMAIN gs[group][epoch])
    IN  IF all = <<>> THEN <<>> ELSE <<all[1]>>

\* lines 1161-1165: the groups with the format and every object type
GroupsList(gs, object_type, epoch) ==
    SelectSeq(GroupNameOrder,
              LAMBDA group : /\ group \in DOMAIN gs
                             /\ epoch \in DOMAIN gs[group]
                             /\ \A j \in 1..Len(object_type) :
                                   object_type[j].s \in DOMAIN gs[group][epoch])

\* lines 1155-1170: return_list before the bins are expanded; direct says
\* that line 1159 returns the empty list at once
ReturnList(fs, gs, object_type, epoch) ==
    IF ~HasIter(object_type)
    THEN IF epoch \in DOMAIN fs /\ object_type.s \in DOMAIN fs[epoch]
         THEN [direct |-> FALSE,
               list |-> List([i \in 1..Len(fs[epoch][object_type.s]) |->
                                Dict(fs[epoch][object_type.s][i])])]
         ELSE [direct |-> TRUE, list |-> List(<<>>)]
    ELSE LET groups_list == GroupsList(gs, object_type.l, epoch)
         IN  [direct |-> FALSE,
              list |-> List([g \in 1..Len(groups_list) |->
                        List([j \in 1..Len(object_type.l) |->
                           Dict(fs[epoch][object_type.l[j].s]
                                  [gs[groups_list[g]][epoch][object_type.l[j].s] + 1])])])]

\* the variant that puts the expanded descriptors in the file table
FilesAfter_Replaced(fs, gs, object_type, epoch, e) ==
    IF ~HasIter(object_type) /\ epoch \in DOMAIN fs /\ object_type.s \in DOMAIN fs[epoch]
       /\ e.err = ""
    THEN [fs EXCEPT ![epoch][object_type.s] = [i \in 1..Len(e.out) |-> e.out[i].d]]
    ELSE fs

\* self.files after listData: the descriptors of return_list are the
\* objects of the file table, so what _expandBins leaves of them (e.now) is
\* what the table holds
FilesAfter(fs, gs, object_type, epoch, e) ==
    IF ~HasIter(object_type)
    THEN IF epoch \in DOMAIN fs /\ object_type.s \in DOMAIN fs[epoch]
         THEN [fs EXCEPT ![epoch][object_type.s] =
                            [i \in 1..Len(fs[epoch][object_type.s]) |-> e.now.l[i].d]]
         ELSE fs
    ELSE LET groups_list == GroupsList(gs, object_type.l, epoch)
             at(o, i) == {<<g, j>> \in (1..Len(groups_list)) \X (1..Len(object_type.l)) :
                             /\ object_type.l[j].s = o
                             /\ gs[groups_list[g]][epoch][o] + 1 = i}
         IN  [f \in DOMAIN fs |-> [o \in DOMAIN fs[f] |-> [i \in 1..Len(fs[f][o]) |->
                 IF f = epoch /\ at(o, i) # {}
                 THEN LET gj == CHOOSE x \in at(o, i) : TRUE
                      IN  e.now.l[gj[1]].l[gj[2]].d
                 ELSE fs[f][o][i]]]]

\* lines 1099-1108: one entry per descriptor of that name, with its format,
\* its object type and its other keys
QueryEntries(fs, file_name) ==
    Concat([fi \in 1..Len(Keys(fs)) |->
       LET format == Keys(fs)[fi]
       IN  Concat([oi \in 1..Len(Keys(fs[format])) |->
              LET o == Keys(fs[format])[oi]
                  hits == SelectSeq(fs[format][o], LAMBDA item : item["name"] = Str(file_name))
              IN  [h \in 1..Len(hits) |->
                     [format |-> format, object_type |-> o, item |-> Del(hits[h], "name")]]])])

-----------------------------------------------------------------------------
(* construction followed by calls of the query methods *)

\* the leaf lists of an object type: up to MaxLen names, or a descriptor
\* with a bin specification next to a name
QueryLeaves(o) ==
    LET names == CASE o = "star" -> <<"a", "b", "a", "b">>
                   [] o = "galaxy" -> <<"c", "d", "c", "d">>
                   [] OTHER -> <<"e", "e", "e", "e">>
    IN  {List([i \in 1..k |-> Str(names[i])]) : k \in 1..MaxLen}
        \cup (IF o = "star PSF" THEN {}
              ELSE {List(<<Dict([name |-> Str(names[1]), bins |-> OneAxis])>>),
                    List(<<Dict([name |-> Str(names[1]), bins |-> TwoAxes]), Str(names[2])>>)})

\* the mappings object type -> leaf list
QueryLeafMaps ==
    UNION {{Dict(f) : f \in {g \in [S -> UNION {QueryLeaves(o) : o \in S}] :
                               \A o \in S : g[o] \in QueryLeaves(o)}}
           : S \in (SUBSET object_types) \ {{}}}

\* one source of one format, and one source of two formats
QueryConfigs ==
    {Put(Empty, "file0", Tree(gv, Put(Empty, "CCD", leaf))) :
        gv \in {NoGroup, Str("g1"), PyFalse}, leaf \in QueryLeafMaps}
    \cup {Put(Empty, "file0", Tree(NoGroup, Put(Put(Empty, "CCD", l1), "field", l2))) :
            l1 \in Leaves({"star", "galaxy"}, 1), l2 \in Leaves({"star", "galaxy"}, 1)}

\* the formats asked for, as (epoch, extent, data_format)
QueryFormats ==
    {<<"single-CCD-catalog", "", "">>, <<"single", "field", "catalog">>,
     <<"coadd-CCD-catalog", "", "">>}

\* the object types asked for: one, or a sequence
QueryTypes ==
    {Str("star"), Str("galaxy"), Str("quasar"),
     List(<<Str("star")>>),
     List(<<Str("star"), Str("galaxy")>>), List(<<Str("galaxy"), Str("star")>>),
     List(<<Str("star"), Str("galaxy"), Str("star PSF")>>),
     List(<<Str("star"), Str("quasar")>>)}

\* before construction, as Init, for the configurations that are queried
InitQuery ==
    /\ config \in QueryConfigs
    /\ dictOrder \in {"asc", "desc"}
    /\ pc = "parse"
    /\ idx = 0
    /\ n = 0
    /\ grouped = <<>>
    /\ file_list = <<>>
    /\ files = Empty
    /\ groups = Empty
    /\ err = ""
    /\ result = NoResult
    /\ item_list = <<>>
    /\ expanded = <<>>
    /\ NoCalls

\* listFileTypes()
ListFileTypes ==
    /\ pc = "done"
    /\ result' = [op |-> "listFileTypes", v |-> Keys(files)]
    /\ UNCHANGED <<callVars, config, dictOrder, pc, idx, n, grouped, file_list, files, groups, err,
                   item_list, expanded>>

\* listObjects(epoch, extent, data_format)
ListObjects ==
    /\ pc = "done"
    /\ \E fmt \in QueryFormats :
          LET epoch == CheckAndCoerceFormat(fmt[1], fmt[2], fmt[3])
          IN  result' = [op |-> "listObjects", epoch |-> epoch,
                         v |-> IF epoch \in DOMAIN files THEN Keys(files[epoch]) ELSE <<>>]
    /\ UNCHANGED <<callVars, config, dictOrder, pc, idx, n, grouped, file_list, files, groups, err,
                   item_list, expanded>>

\* listData(object_type, epoch, extent, data_format)
ListData ==
    /\ pc = "done"
    /\ \E object_type \in QueryTypes, fmt \in QueryFormats :
          LET epoch == CheckAndCoerceFormat(fmt[1], fmt[2], fmt[3])
              r == ReturnList(files, groups, object_type, epoch)
              e == IF r.direct THEN [err |-> "", out |-> <<>>, now |-> r.list]
                   ELSE ExpandBins(r.list)
          IN  /\ result' = [op |-> "listData", object_type |-> object_type,
                            epoch |-> epoch, err |-> e.err, v |-> e.out]
              /\ files' = FilesAfter(files, groups, object_type, epoch, e)
    /\ UNCHANGED <<callVars, config, dictOrder, pc, idx, n, grouped, file_list, groups, err,
                   item_list, expanded>>

\* queryFile(file_name)
QueryFile ==
    /\ pc = "done"
    /\ \E file_name \in {"a", "c", "zz"} :
          result' = [op |-> "queryFile", file_name |-> file_name,
                     v |-> QueryEntries(files, file_name)]
    /\ UNCHANGED <<callVars, config, dictOrder, pc, idx, n, grouped, file_list, files, groups, err,
                   item_list, expanded>>

\* construction, then any sequence of queries
NextQuery == ParseFile \/ FixGroupingsStep \/ ListFileTypes \/ ListObjects \/ ListData \/ QueryFile

SpecQuery == InitQuery /\ [][NextQuery]_vars

-----------------------------------------------------------------------------
(* C18: grouped descriptors with bins, requested together *)

\* listData was the last call, with a sequence of object types
JointCall == result.op = "listData" /\ HasIter(result.object_type)

\* the groups a joint call selects
Selected == Range(GroupsList(groups, result.object_type.l, result.epoch))

\* the descriptor of a group for an object type of the format
Member(g, f, o) == files[f][o][groups[g][f][o] + 1]

\* the descriptors a joint call asks for
Requested ==
    {Member(g, result.epoch, result.object_type.l[j].s) :
        g \in Selected, j \in 1..Len(result.object_type.l)}

\* C18: a listData call with several object types that selects a grouped
\* descriptor with a bin specification raises an error.
C18_GroupedBinsRejected ==
    (/\ JointCall
     /\ Len(result.object_type.l) > 1
     /\ \E d \in Requested : "bins" \in DOMAIN d) =>
        result.err # ""

-----------------------------------------------------------------------------
(* C19: the query methods leave the tables alone *)

\* the places of the file table the group table points at
GroupPlaces ==
    {<<g, f, o>> \in (DOMAIN groups) \X (DOMAIN files) \X object_types :
        f \in DOMAIN groups[g] /\ o \in DOMAIN groups[g][f]}

\* C19: every call of listFileTypes, listObjects, listData or queryFile on
\* the constructed handler leaves the group table as it is, and every index
\* of the group table refers to the same descriptor, at the same position of
\* the same list of the file table, after the call as before it; also when
\* listData expands bins.
C19_QueriesKeepTables ==
    [][pc = "done" =>
          /\ groups' = groups
          /\ \A p \in GroupPlaces :
                /\ p[2] \in DOMAIN files'
                /\ p[3] \in DOMAIN files'[p[2]]
                /\ groups[p[1]][p[2]][p[3]] + 1 \in 1..Len(files'[p[2]][p[3]])
                /\ files'[p[2]][p[3]][groups[p[1]][p[2]][p[3]] + 1] = Member(p[1], p[2], p[3])]_vars

\* listData has expanded the bins of a grouped descriptor
C19_Witness ==
    /\ Done
    /\ result.op = "listData"
    /\ ~HasIter(result.object_type)
    /\ result.err = ""
    /\ Len(result.v) > 1
    /\ "bin_list" \in DOMAIN result.v[1].d
    /\ "group" \in DOMAIN result.v[1].d
    /\ GroupPlaces # {}

-----------------------------------------------------------------------------
(* C20: listData with a sequence of object types *)

\* no descriptor of the format has a bin specification
NoBinsAt(f) ==
    f \in DOMAIN files =>
        \A o \in DOMAIN files[f] : \A i \in 1..Len(files[f][o]) :
            "bins" \notin DOMAIN files[f][o][i]

\* the groups that have the format and every one of the object types
Holders(types, f) ==
    {g \in DOMAIN groups :
        f \in DOMAIN groups[g] /\ \A j \in 1..Len(types) : types[j].s \in DOMAIN groups[g][f]}

\* the descriptors of a group for the object types, in their order
EntryOf(g, types, f) == List([j \in 1..Len(types) |-> Dict(Member(g, f, types[j].s))])

\* C20: without bins, listData with a sequence of object types returns one
\* entry for each group that has the format and all the object types, and no
\* other entry; an entry holds the group's descriptor of each object type, in
\* the order of the request, each tagged with the group's name.  For a format
\* or an object type the file table does not have, listData returns the
\* empty list.
C20_OneEntryPerGroup ==
    /\ (JointCall /\ NoBinsAt(result.epoch)) =>
          LET types == result.object_type.l
              f == result.epoch
              G == Holders(types, f)
          IN  /\ result.err = ""
              /\ Len(result.v) = Cardinality(G)
              /\ \A g \in G :
                    Cardinality({i \in 1..Len(result.v) : result.v[i] = EntryOf(g, types, f)}) = 1
              /\ \A i \in 1..Len(result.v) : \E g \in G :
                    /\ result.v[i] = EntryOf(g, types, f)
                    /\ \A j \in 1..Len(types) : g \in TagSet(result.v[i].l[j].d)
    /\ (/\ result.op = "listData"
        /\ \/ result.epoch \notin DOMAIN files
           \/ \E o \in (IF HasIter(result.object_type) THEN Range(result.object_type.l)
                        ELSE {result.object_type}) :
                 o.s \notin DOMAIN files[result.epoch]) =>
          (result.err = "" /\ result.v = <<>>)

\* two groups of stars and galaxies have been listed, galaxies first
C20_Witness ==
    /\ JointCall
    /\ NoBinsAt(result.epoch)
    /\ result.object_type = List(<<Str("galaxy"), Str("star")>>)
    /\ Len(result.v) = 2
    /\ result.v[1].l[1].d["name"] = Str("c")
    /\ result.v[2].l[2].d["name"] = Str("b")

\* a joint call has named an object type that no file has
C20_WitnessUnknown ==
    /\ JointCall
    /\ result.object_type = List(<<Str("star"), Str("quasar")>>)
    /\ result.epoch \in DOMAIN files
    /\ "star" \in DOMAIN files[result.epoch]
    /\ DOMAIN groups # {}
    /\ result.v = <<>>

-----------------------------------------------------------------------------
(* C21: order of the lists of the file table *)

\* the descriptors, without group, that the items of a normalized list give
\* format f and object type o, in the order of the list
LeafSeq(list, f, o) ==
    Concat([i \in 1..Len(list) |->
              IF ItemFormat(list[i]) = f /\ list[i]["object_type"] = Str(o)
              THEN [j \in 1..Len(Entries(list[i])) |-> WithTopLevel(Core(Entries(list[i])[j]), f, o)]
              ELSE <<>>])

RECURSIVE FirstOnly(_, _)
\* q without the elements that occurred before
FirstOnly(q, seen) ==
    IF q = <<>> THEN <<>>
    ELSE IF Head(q) \in seen THEN FirstOnly(Tail(q), seen)
    ELSE <<Head(q)>> \o FirstOnly(Tail(q), seen \cup {Head(q)})

\* C21: after construction the descriptors of a list of the file table are,
\* apart from their group, the descriptors of the sources in the order the
\* sources were processed, those of one source in their input order, each
\* distinct descriptor at the place of its first occurrence.
C21_ConcatenationOrder ==
    Done =>
        LET lists == [s \in 1..NumSources |-> NormalList(s)] IN
        \A f \in DOMAIN files : \A o \in DOMAIN files[f] :
            [p \in 1..Len(files[f][o]) |-> Body(files[f][o][p])] =
                FirstOnly(Concat([s \in 1..NumSources |-> LeafSeq(lists[s], f, o)]), {})

\* two sources have given one list its descriptors, the second source a
\* descriptor the first had and one it had not
C21_Witness ==
    /\ Done
    /\ NumSources = 2
    /\ LeafSeq(NormalList(1), "single-CCD-catalog", "star") = <<[name |-> Str("b")]>>
    /\ LeafSeq(NormalList(2), "single-CCD-catalog", "star") =
          <<[name |-> Str("a")], [name |-> Str("b")]>>
    /\ Len(files["single-CCD-catalog"]["star"]) = 2

-----------------------------------------------------------------------------
(* C22: which descriptors take part in automatic grouping *)

\* _parseFileHelper has just returned for the s-th source
JustParsed(s) == pc = "parse" /\ s = idx

\* the group of the item is absent or True
AbsentOrTrue(l) == "group" \notin DOMAIN l \/ l["group"] = PyTrue

\* the group of the item is not False
NotFalse(l) == "group" \notin DOMAIN l \/ l["group"] # PyFalse

\* the descriptors of format f and object type o of the items that P counts
Counted(P(_), list, f, o) ==
    Concat([i \in 1..Len(list) |->
              IF ItemFormat(list[i]) = f /\ list[i]["object_type"] = Str(o) /\ P(list[i])
              THEN Entries(list[i]) ELSE <<>>])

\* the items of format f and object type o that _group gave a synthesized name
Paired(out, f, o) ==
    {x \in 1..Len(out) : /\ ItemFormat(out[x]) = f
                         /\ out[x]["object_type"] = Str(o)
                         /\ \E nm \in TagSet(out[x]) : IsSynth(nm)}

\* _group, given list, returned out: it counted exactly the items P counts.
\* Where two or more object types of a format have counted descriptors, the
\* same number each, every counted descriptor and no other is paired; where
\* not, none of the format is.
CountsBy(P(_), list, out) ==
    \A f \in FormatsOf(list) :
        LET types == {o \in object_types : Counted(P, list, f, o) # <<>>}
            lens == {Len(Counted(P, list, f, o)) : o \in types}
        IN  \A o \in object_types :
                Cardinality(Paired(out, f, o)) =
                    IF Cardinality(types) >= 2 /\ Cardinality(lens) = 1
                    THEN Len(Counted(P, list, f, o)) ELSE 0

\* C22 (as stated): _group counts every descriptor whose group is not
\* False, also one with a group name the configuration gave.
C22_Original ==
    \A s \in 1..Len(grouped) :
        JustParsed(s) => CountsBy(NotFalse, NormalList(s), grouped[s])

\* C22 (amended): _group counts a descriptor exactly when its group is
\* absent or True; a descriptor whose group is False or a name the
\* configuration gave is neither counted when the lengths are compared nor
\* paired.
C22_AbsentOrTrueTakePart ==
    \A s \in 1..Len(grouped) :
        JustParsed(s) => CountsBy(AbsentOrTrue, NormalList(s), grouped[s])

\* stars and galaxies of one format, all with a group name the configuration
\* gave, went through _group and none was paired
C22_Witness ==
    /\ Len(grouped) >= 1
    /\ LET list == NormalList(1)
       IN  /\ \A i \in 1..Len(list) : "group" \in DOMAIN list[i] /\ list[i]["group"] = Str("g1")
           /\ \E f \in FormatsOf(list) :
                 /\ Counted(NotFalse, list, f, "star") # <<>>
                 /\ Len(Counted(NotFalse, list, f, "star")) = Len(Counted(NotFalse, list, f, "galaxy"))
                 /\ Paired(grouped[1], f, "star") = {}

\* stars and galaxies with group True were paired
C22_WitnessTrue ==
    /\ Len(grouped) >= 1
    /\ LET list == NormalList(1)
       IN  /\ \A i \in 1..Len(list) : "group" \in DOMAIN list[i] /\ list[i]["group"] = PyTrue
           /\ \E f \in FormatsOf(list) : Paired(grouped[1], f, "star") # {}

-----------------------------------------------------------------------------
(* C23: 'group' and 'wildcard' next to the file sources *)

RECURSIVE Mentions(_, _)
\* some mapping of the tree v has the key
Mentions(v, key) ==
    CASE v.k = "dict" -> key \in DOMAIN v.d \/ \E x \in DOMAIN v.d : Mentions(v.d[x], key)
      [] v.k = "list" -> \E i \in 1..Len(v.l) : Mentions(v.l[i], key)
      [] OTHER -> FALSE

\* the configuration has the value at the top level, and no source has the key
TopLevelOnly(key, value) ==
    /\ key \in DOMAIN config
    /\ config[key] = value
    /\ \A s \in 1..NumSources : ~Mentions(Source(s), key)

\* the names of the file table
TableNames == {d["name"] : d \in Descriptors(files)}

\* C23: a top-level wildcard True makes the names of every source that
\* does not set wildcard be expanded, so no pattern is left in the file
\* table; a top-level group False keeps every source that does not set group
\* out of automatic grouping, so no group arises.
C23_TopLevelGoverns ==
    Done =>
        /\ TopLevelOnly("wildcard", PyTrue) => Str("exp_*") \notin TableNames
        /\ TopLevelOnly("group", PyFalse) => groups = Empty

-----------------------------------------------------------------------------
(* C24: the top-level fields and file_reader *)

RECURSIVE Asked(_, _, _)
\* what a top-level value asks for: the value to add, the format values and
\* the object type ("" for any) of the descriptors to add it to
Asked(v, parts, type) ==
    IF v.k # "dict" THEN [value |-> v, parts |-> parts, type |-> type]
    ELSE IF "name" \in DOMAIN v.d
    THEN [value |-> v.d["name"],
          parts |-> parts \cup {v.d[a].s : a \in (DOMAIN v.d) \cap {"epoch", "extent", "data_format"}},
          type |-> IF "object_type" \in DOMAIN v.d THEN v.d["object_type"].s ELSE type]
    ELSE LET x == CHOOSE x \in DOMAIN v.d : TRUE
         IN  IF x \in object_types THEN Asked(v.d[x], parts, x)
             ELSE Asked(v.d[x], parts \cup {x}, type)

\* the value of the key in the descriptor, if it has one
Own(d, key) == IF key \in DOMAIN d THEN <<d[key]>> ELSE <<>>

\* C24: after construction, for a top-level fields or file_reader, a
\* descriptor of a source has the top-level value under the key exactly if it
\* had no value of its own and its format and object type meet the
\* restrictions of the value; every other descriptor has under the key what
\* it had before, and no other key of a descriptor has changed.
C24_GlobalKeysNeverOverride ==
    Done =>
        \A s \in 1..Len(file_list) :
            LET pre == FormatFileList(grouped[s], 1, Empty)
            IN  \A f \in DOMAIN pre : \A o \in DOMAIN pre[f] : \A p \in 1..Len(pre[f][o]) :
                    LET before == pre[f][o][p]
                        after == file_list[s][f][o][p]
                    IN  /\ \A key \in {"fields", "file_reader"} \cap DOMAIN config :
                               LET a == Asked(config[key], {}, "")
                               IN  Own(after, key) =
                                       IF /\ key \notin DOMAIN before
                                          /\ a.parts \subseteq FormatParts(f)
                                          /\ a.type \in {"", o}
                                       THEN <<a.value>> ELSE Own(before, key)
                        /\ \A key \in (DOMAIN before \cup DOMAIN after)
                                          \ {"fields", "flag_field", "file_reader"} :
                               Own(after, key) = Own(before, key)

-----------------------------------------------------------------------------
(* DataHandler.getOutputPath *)

\* A file of output_path: the strings that '_' joins to its name, and its
\* extension.  No string of the model has an underscore or is the beginning
\* of another one, so a name begins with sys_test_string exactly if its
\* strings begin with those of sys_test_string.
Path(tokens, ext) == [tokens |-> tokens, ext |-> ext]

\* the strings of the model that begin with '.'
Extensions == {".png"}

\* lines 83-88: the strings of sys_test_string and the extension
SysTestString(args) ==
    IF args[Len(args)] \in Extensions THEN SubSeq(args, 1, Len(args) - 1) ELSE args
Extension(args) == IF args[Len(args)] \in Extensions THEN args[Len(args)] ELSE ""

\* line 98: glob.glob(os.path.join(output_path, sys_test_string)+'*'+extension)
GlobFiles(existing, tokens, ext) ==
    {f \in existing : /\ Len(tokens) <= Len(f.tokens)
                      /\ SubSeq(f.tokens, 1, Len(tokens)) = tokens
                      /\ (ext = "" \/ f.ext = ext)}

\* getOutputPath(*args): [path, written], the path a sequence of one path or
\* empty when the call returns None, written the new self.written_files
GetOutputPath(args, existing) ==
    LET tokens == SysTestString(args)
        ext == Extension(args)
        same == [path |-> <<Path(tokens, ext)>>, written |-> written_files]
    IN  IF clobber /\ multi_file
        THEN LET file_base == Path(tokens, ext)
                 count == IF file_base \in DOMAIN written_files
                          THEN written_files[file_base] + 1 ELSE 0
             IN  [path |-> <<Path(Append(tokens, ToString(count)), ext)>>,
                  written |-> [x \in (DOMAIN written_files) \cup {file_base} |->
                                  IF x = file_base THEN count ELSE written_files[x]]]
        ELSE IF multi_file
        THEN LET \* the count of output_path is in every name and in n_underscores
                 n_underscores == (Len(tokens) - 1) + 1
                 found == {f \in GlobFiles(existing, tokens, ext) :
                              Len(f.tokens) - 1 <= n_underscores}
                 numbered == Path(Append(tokens, ToString(Cardinality(found))), ext)
             IN  IF found # {}
                 THEN IF Path(tokens, ext) \notin found THEN same
                      ELSE IF numbered \notin found
                      THEN [path |-> <<numbered>>, written |-> written_files]
                      \* lines 108-112: every turn of the loop tests the name
                      \* just tested, and the function ends without a return
                      ELSE [path |-> <<>>, written |-> written_files]
                 ELSE same
        ELSE same

\* most calls of getOutputPath for one file_base
MaxCalls == 2

\* the files that may exist in output_path
DiskFiles ==
    {Path(<<"t">>, ".png"), Path(<<"t", "1">>, ".png"), Path(<<"t", "2">>, ".png"),
     Path(<<"t", "3">>, ".png"), Path(<<"t", "x">>, ".png"), Path(<<"t", "1", "2">>, ".png"),
     Path(<<"t">>, ""), Path(<<"u">>, ".png")}

\* the argument lists of the calls
PathArgs == {<<"t", ".png">>, <<"t">>}

InitPath ==
    /\ clobber \in BOOLEAN
    /\ multi_file \in BOOLEAN
    /\ written_files = <<>>
    /\ disk \in SUBSET DiskFiles
    /\ input \in PathArgs
    /\ result = NoResult
    /\ pc = "path"
    /\ err = ""
    /\ config = Empty /\ dictOrder = "asc" /\ idx = 0 /\ n = 0
    /\ grouped = <<>> /\ file_list = <<>> /\ files = Empty /\ groups = Empty
    /\ item_list = <<>> /\ expanded = <<>>

\* a call of getOutputPath(*input)
GetOutputPathCall ==
    /\ pc = "path"
    /\ \A b \in DOMAIN written_files : written_files[b] < MaxCalls
    /\ LET r == GetOutputPath(input, disk)
       IN  /\ result' = [op |-> "getOutputPath", v |-> r.path]
           /\ written_files' = r.written
    /\ UNCHANGED <<config, dictOrder, pc, idx, n, grouped, file_list, files, groups, err,
                   item_list, expanded, clobber, multi_file, disk, input>>

NextPath == GetOutputPathCall

SpecPath == InitPath /\ [][NextPath]_vars

\* C25: a call of getOutputPath with clobber False and multi_file True
\* returns a path, and the path is none of the existing files that match the
\* base name and the extension.
C25_FreshPathReturned ==
    (result.op = "getOutputPath" /\ ~clobber /\ multi_file) =>
        /\ result.v # <<>>
        /\ result.v[1] \notin GlobFiles(disk, SysTestString(input), Extension(input))

-----------------------------------------------------------------------------
(* treecorr_utils.PickTreeCorrKeys *)

\* treecorr.corr2.corr2_valid_params: the keys of the model that it holds
corr2_valid_params == {"min_sep", "nbins"}

\* the variant in which an entry of treecorr_kwargs is not overwritten
PickTreeCorrKeys_KwargsKept(input_dict) ==
    IF DOMAIN input_dict = {} THEN Empty
    ELSE LET treecorr_dict == IF "treecorr_kwargs" \in DOMAIN input_dict
                              THEN input_dict["treecorr_kwargs"].d ELSE Empty
             picked == corr2_valid_params \cap DOMAIN input_dict
         IN  [key \in (DOMAIN treecorr_dict) \cup picked |->
                 IF key \in DOMAIN treecorr_dict THEN treecorr_dict[key] ELSE input_dict[key]]

\* PickTreeCorrKeys(input_dict): treecorr_dict starts as the dict under
\* 'treecorr_kwargs' and gets the valid keys of input_dict assigned
PickTreeCorrKeys(input_dict) ==
    IF DOMAIN input_dict = {} THEN Empty
    ELSE LET treecorr_dict == IF "treecorr_kwargs" \in DOMAIN input_dict
                              THEN input_dict["treecorr_kwargs"].d ELSE Empty
             picked == corr2_valid_params \cap DOMAIN input_dict
         IN  [key \in (DOMAIN treecorr_dict) \cup picked |->
                 IF key \in picked THEN input_dict[key] ELSE treecorr_dict[key]]

\* the dicts over keys with every value of vals, and the keys left out
DictsOver(keys, vals) ==
    UNION {[S -> vals] : S \in SUBSET keys}

\* input_dict: two valid keys and one that is not, with or without a
\* treecorr_kwargs over the same keys
TreeCorrInputs ==
    LET keys == {"min_sep", "nbins", "name"}
    IN  UNION {{top} \cup {Put(top, "treecorr_kwargs", Dict(kw)) : kw \in DictsOver(keys, {Num(3)})}
               : top \in DictsOver(keys, {Num(1), Num(2)})}

InitTreeCorr ==
    /\ input \in TreeCorrInputs
    /\ result = NoResult
    /\ pc = "treecorr"
    /\ clobber = FALSE /\ multi_file = FALSE /\ written_files = <<>> /\ disk = {}
    /\ err = ""
    /\ config = Empty /\ dictOrder = "asc" /\ idx = 0 /\ n = 0
    /\ grouped = <<>> /\ file_list = <<>> /\ files = Empty /\ groups = Empty
    /\ item_list = <<>> /\ expanded = <<>>

\* a call of PickTreeCorrKeys(input); the dict under 'treecorr_kwargs' is
\* the object the call fills and returns
PickTreeCorrKeysCall ==
    /\ pc = "treecorr"
    /\ LET r == PickTreeCorrKeys(input)
       IN  /\ result' = [op |-> "PickTreeCorrKeys", v |-> r]
           /\ input' = IF "treecorr_kwargs" \in DOMAIN input
                       THEN Put(input, "treecorr_kwargs", Dict(r)) ELSE input
    /\ UNCHANGED <<config, dictOrder, pc, idx, n, grouped, file_list, files, groups, err,
                   item_list, expanded, clobber, multi_file, written_files, disk>>

NextTreeCorr == PickTreeCorrKeysCall

SpecTreeCorr == InitTreeCorr /\ [][NextTreeCorr]_vars

\* the top-level keys of input_dict that are valid TreeCorr parameters
ValidTop(input_dict) == (DOMAIN input_dict) \cap corr2_valid_params

\* C26 (as stated): the returned dict has (k, input_dict[k]) for every
\* valid top-level key k, also where treecorr_kwargs has k, has no top-level
\* key of input_dict that is not valid, and is empty for an empty input.
C26_Original ==
    result.op = "PickTreeCorrKeys" =>
        /\ \A k \in ValidTop(input) : k \in DOMAIN result.v /\ result.v[k] = input[k]
        /\ \A k \in (DOMAIN input) \ corr2_valid_params : k \notin DOMAIN result.v
        /\ DOMAIN input = {} => result.v = Empty

\* C26 (amended): the returned dict has (k, input_dict[k]) for every valid
\* top-level key k, also where treecorr_kwargs has k; its other entries are
\* exactly the other entries of treecorr_kwargs, returned unfiltered, so a
\* top-level key that is not valid is in it exactly if treecorr_kwargs has
\* that key, with the value of treecorr_kwargs; it is empty for an empty
\* input.
C26_ValidKeysAndKwargs ==
    [][LET kwargs == IF "treecorr_kwargs" \in DOMAIN input
                     THEN input["treecorr_kwargs"].d ELSE Empty
           out == result'.v
       IN  /\ result'.op = "PickTreeCorrKeys"
           /\ \A k \in ValidTop(input) : k \in DOMAIN out /\ out[k] = input[k]
           /\ DOMAIN out = ValidTop(input) \cup DOMAIN kwargs
           /\ \A k \in (DOMAIN kwargs) \ ValidTop(input) : out[k] = kwargs[k]
           /\ \A k \in (DOMAIN input) \ corr2_valid_params :
                  k \in DOMAIN out <=> k \in DOMAIN kwargs
           /\ DOMAIN input = {} => out = Empty]_vars

\* a call returned the top-level min_sep, not the one of treecorr_kwargs it
\* overwrote, and the name that only treecorr_kwargs can have given it
C26_Witness ==
    /\ result.op = "PickTreeCorrKeys"
    /\ {"min_sep", "name", "treecorr_kwargs"} \subseteq DOMAIN input
    /\ "nbins" \notin DOMAIN input
    /\ DOMAIN result.v = {"min_sep", "name", "nbins"}
    /\ input["min_sep"] = Num(1)
    /\ result.v["min_sep"] = Num(1)
    /\ result.v["name"] = Num(3)
    /\ result.v["nbins"] = Num(3)

\* a call with an empty input_dict returned an empty dict
C26_WitnessEmpty ==
    result.op = "PickTreeCorrKeys" /\ DOMAIN input = {} /\ result.v = Empty

-----------------------------------------------------------------------------
(* C27: control keys and the axis loop *)

RECURSIVE Mappings(_)
\* the mappings of a tree that _recurseDict reaches through keys of mappings
Mappings(node) ==
    IF node.k # "dict" THEN {}
    ELSE {node.d} \cup UNION {Mappings(node.d[x]) : x \in DOMAIN ControlRest(node.d)}

\* the keys of the mapping f that the loop of lines 504-509 pops and binds
\* to a format key: every key that lines 480-493 left, once one of them is a
\* value of some axis
AxisConsumed(f) ==
    IF \E a \in 1..4 : \E x \in DOMAIN ControlRest(f) : x \in default_vals[a]
    THEN DOMAIN ControlRest(f) ELSE {}

\* _parseFileHelper was called for the s-th source
Parsed(s) == s <= idx \/ (pc = "error" /\ s = idx + 1)

\* C27: at no mapping of a parsed source is group, wildcard, fields,
\* flag_field or file_reader among the keys the axis loop binds as the value
\* of epoch, extent, data_format or object_type.
C27_ControlKeysNotAxisValues ==
    \A s \in 1..NumSources :
        Parsed(s) => \A f \in Mappings(Source(s)) : AxisConsumed(f) \cap ControlKeys = {}

-----------------------------------------------------------------------------
(* C28: the indices of the group table *)

\* C28: after construction every index groups[g][f][o] is an index, from 0,
\* into the list files[f][o], and the descriptor there has g among its group
\* names; and every group name on a descriptor of the file table is a key of
\* the group table that leads, by the format and the object type of the
\* descriptor, to the index of that descriptor.
C28_GroupIndicesValid ==
    Done =>
        /\ \A g \in DOMAIN groups : \A f \in DOMAIN groups[g] : \A o \in DOMAIN groups[g][f] :
              /\ f \in DOMAIN files
              /\ o \in DOMAIN files[f]
              /\ groups[g][f][o] \in 0..(Len(files[f][o]) - 1)
              /\ g \in TagSet(files[f][o][groups[g][f][o] + 1])
        /\ \A f \in DOMAIN files : \A o \in DOMAIN files[f] : \A p \in 1..Len(files[f][o]) :
              \A g \in TagSet(files[f][o][p]) :
                  /\ g \in DOMAIN groups
                  /\ f \in DOMAIN groups[g]
                  /\ o \in DOMAIN groups[g][f]
                  /\ groups[g][f][o] = p - 1

\* a descriptor with two group names, fused from two sources, both names in
\* the group table, and an index that is not 0
C28_Witness ==
    /\ Done
    /\ \E f \in DOMAIN files : \E o \in DOMAIN files[f] : \E p \in 1..Len(files[f][o]) :
          /\ Cardinality(TagSet(files[f][o][p])) = 2
          /\ TagSet(files[f][o][p]) \subseteq DOMAIN groups
    /\ \E g \in DOMAIN groups : \E f \in DOMAIN groups[g] : \E o \in DOMAIN groups[g][f] :
          groups[g][f][o] = 1

-----------------------------------------------------------------------------
(* C29: the context of sibling branches *)

RECURSIVE Branches(_)
\* the trees that keep, at every mapping, the control keys and one of the
\* other keys: one tree per way from the root to a leaf
Branches(node) ==
    IF node.k # "dict" THEN {node}
    ELSE IF AxisConsumed(node.d) = {} THEN {node}
    ELSE LET own == (DOMAIN node.d) \ DOMAIN ControlRest(node.d)
         IN  UNION {{Dict([y \in own \cup {x} |-> IF y = x THEN b ELSE node.d[y]]) :
                        b \in Branches(node.d[x])} : x \in DOMAIN ControlRest(node.d)}

\* the items of the normalized list of a tree
ItemsOf(tree) == Range(Normalized(tree).v)

\* C29: the descriptors a source tree gives when it is parsed are those its
\* branches give when each is parsed alone, in either order of the dicts:
\* nothing that is set inside one branch is on, or changes, a descriptor of
\* another.
C29_SiblingsIndependent ==
    \A s \in 1..NumSources :
        JustParsed(s) =>
            LET whole == Normalized(Source(s))
                alone == {Normalized(b) : b \in Branches(Source(s))}
            IN  whole.err = "" =>
                    /\ \A r \in alone : r.err = ""
                    /\ Range(whole.v) = UNION {Range(r.v) : r \in alone}

\* the branch parsed last of two set no control key, the one before it did,
\* and only the descriptor of that one has the key
C29_Witness ==
    /\ Parsed(1)
    /\ config \in SiblingConfigs
    /\ dictOrder = "desc"
    /\ Normalized(Source(1)).err = ""
    /\ Cardinality(Branches(Source(1))) = 2
    /\ \E x \in ItemsOf(Source(1)) : \E y \in ItemsOf(Source(1)) :
          /\ x["extent"] = Str("field") /\ "fields" \in DOMAIN x
          /\ y["extent"] = Str("CCD") /\ "fields" \notin DOMAIN y

\* the same with the branches in the other order
C29_WitnessAsc ==
    /\ Parsed(1)
    /\ config \in SiblingConfigs
    /\ dictOrder = "asc"
    /\ Normalized(Source(1)).err = ""
    /\ \E x \in ItemsOf(Source(1)) : \E y \in ItemsOf(Source(1)) :
          /\ x["extent"] = Str("CCD") /\ "flag_field" \in DOMAIN x
          /\ y["extent"] = Str("field") /\ "flag_field" \notin DOMAIN y

-----------------------------------------------------------------------------
(* lsst/sys_test_adapters.py: MaskGalaxy, MaskStar *)

\* data that a column name indexes (data[name] is the column), and data
\* that is a sequence of records (data[name] raises, the except clause
\* runs); ext is 'classification.extendedness' of the objects in order
Table(ext) == [k |-> "table", ext |-> ext]
Records(ext) == [k |-> "records", ext |-> ext]

\* MaskGalaxy(data), lines 15-19
MaskGalaxy(data) ==
    IF data.k = "table"
    THEN [i \in 1..Len(data.ext) |-> data.ext[i] = 1]
    ELSE [i \in 1..Len(data.ext) |-> data.ext[i] = 1]

\* MaskStar(data), lines 21-25: the except clause compares with 1
MaskStar(data) ==
    IF data.k = "table"
    THEN [i \in 1..Len(data.ext) |-> data.ext[i] = 0]
    ELSE [i \in 1..Len(data.ext) |-> data.ext[i] = 1]

\* most objects of the data
MaxRows == 3

\* the data of the calls: extendedness 0, 1 or another value
MaskInputs ==
    LET exts == UNION {[1..k -> {0, 1, 2}] : k \in 0..MaxRows}
    IN  {Table(e) : e \in exts} \cup {Records(e) : e \in exts}

InitMask ==
    /\ input \in MaskInputs
    /\ result = NoResult
    /\ pc = "mask"
    /\ clobber = FALSE /\ multi_file = FALSE /\ written_files = <<>> /\ disk = {}
    /\ err = ""
    /\ config = Empty /\ dictOrder = "asc" /\ idx = 0 /\ n = 0
    /\ grouped = <<>> /\ file_list = <<>> /\ files = Empty /\ groups = Empty
    /\ item_list = <<>> /\ expanded = <<>>

\* a call of MaskStar(input)
MaskStarCall ==
    /\ pc = "mask"
    /\ result' = [op |-> "MaskStar", v |-> MaskStar(input)]
    /\ UNCHANGED <<callVars, config, dictOrder, pc, idx, n, grouped, file_list, files,
                   groups, err, item_list, expanded>>

\* a call of MaskGalaxy(input)
MaskGalaxyCall ==
    /\ pc = "mask"
    /\ result' = [op |-> "MaskGalaxy", v |-> MaskGalaxy(input)]
    /\ UNCHANGED <<callVars, config, dictOrder, pc, idx, n, grouped, file_list, files,
                   groups, err, item_list, expanded>>

NextMask == MaskStarCall \/ MaskGalaxyCall

SpecMask == InitMask /\ [][NextMask]_vars

\* C30: for a table and for a sequence of records, MaskStar selects
\* exactly the objects with extendedness 0 and MaskGalaxy exactly those with
\* extendedness 1, and no object is selected by both.
C30_StarsAndGalaxiesApart ==
    /\ result.op = "MaskStar" =>
          result.v = [i \in 1..Len(input.ext) |-> input.ext[i] = 0]
    /\ result.op = "MaskGalaxy" =>
          result.v = [i \in 1..Len(input.ext) |-> input.ext[i] = 1]
    /\ result.op \in {"MaskStar", "MaskGalaxy"} =>
          \A i \in 1..Len(input.ext) : ~(MaskStar(input)[i] /\ MaskGalaxy(input)[i])

=============================================================================
